---- MODULE Spec2Model ----
(***************************************************************************)
(* A model of @angular-redux3/store.                                       *)
(*                                                                         *)
(*   SpecStore    NgRedux over a redux store: configureStore, provideStore,*)
(*                dispatch, subscribe, select                              *)
(*   SpecEntity   the entity adapter (createEntityAdapter)                 *)
(*   SpecSelector the memoized selector (createSelector)                   *)
(*   SpecEffect   rxEffect / rxActionEffect under the flattening operators *)
(*                                                                         *)
(* Object identity matters to several properties ("returns the same        *)
(* reference"), so objects that the code allocates carry a reference       *)
(* number taken from an allocation counter.                                *)
(***************************************************************************)
EXTENDS Integers, Sequences, FiniteSets, TLC

(***************************************************************************)
(* Bounds                                                                  *)
(***************************************************************************)
\* dispatch calls explored on one NgRedux instance
MaxDispatch == 3
\* entity ids are 1..MaxId
MaxId == 3
\* the values of the field the sortComparer compares are 1..MaxKey
MaxKey == 2
\* longest list handed to addMany, setAll, removeMany, updateMany, upsertMany
MaxList == 2
\* adapter operations explored from getInitialState()
MaxEntityOps == 2
\* addMany, setOne and updateOne calls explored on a sorted adapter
MaxSortedOps == 3
\* input selectors of the memoized selector
NumSelectors == 2
\* the objects an input selector can return are 1..MaxInputVal
MaxInputVal == 2
\* calls of the memoized selector explored
MaxSelCalls == 4
\* source values (state changes or matching actions) an effect receives
MaxValues == 3
\* emissions of inner observables explored
MaxEmits == 2
\* destroy() calls explored on one effect
MaxDestroy == 2
\* nested subscribe() calls the call stack has room for
StackDepth == 3

VARIABLES
    \* ---- NgRedux / redux store ----
    ngStore,        \* NgRedux._store: NoStore or the id of a redux store
    isZonelessMode, \* NgRedux._isZoneless
    hasNgZone,      \* NgRedux.ngZone was injected
    redux,          \* the redux stores: id -> [state, reducer, listeners]
    rsRootReducer,  \* ReducerService singleton: the root reducer in use
    storeSubject,   \* AbstractStore._store$: the last value pushed
    selectSubs,     \* the subscribers of select() streams
    selectSeen,     \* select subscriber -> last value it received
    heard,          \* subscribe() listener -> number of notifications
    notifyCount,    \* calls of _cdNotifier.notify()
    reducerRuns,    \* calls of a user reducer made by dispatch
    nDispatch,      \* dispatch calls made so far
    firstReducer,   \* the reducer of the first successful configuration
    lastDispatchThrew, \* the reducer threw in the most recent dispatch
    lastCall,       \* what the most recent call did
    replacedWith,   \* the reducer of the latest replaceReducer call on a configured store
    \* ---- entity adapter ----
    hasSortComparer, \* config.sortComparer is set
    estate,          \* the entity state the reducer holds
    nEntityOps,      \* adapter operations applied so far
    lastEntity,      \* what the most recent adapter operation did
    \* ---- memoized selector ----
    lastInputs,      \* createSelector: let lastInputs
    lastResult,      \* createSelector: let lastResult
    recomputations,  \* createSelector: let recomputations
    selInvocations,  \* result-function invocations since construction or release()
    selAlloc,        \* objects the result function has returned so far
    selResultFor,    \* the inputs the result function completed on to give lastResult
    nSelCalls,       \* calls of the selector made so far
    selPrev,         \* the call before the most recent one
    lastSel,         \* what the most recent selector operation did
    \* ---- rxEffect / rxActionEffect ----
    effKind,         \* "rxEffect" or "rxActionEffect"
    effConcurrency,  \* config.concurrency, or Unset
    effArrived,      \* source values received; value n is the n-th one
    effStatus,       \* value -> what became of it and of its task
    effBuffer,       \* concatMap: the values waiting for their turn
    effInvoked,      \* the values effectFn was called with, in call order
    effObserved,     \* the inner emissions that came through, in order
    effBusyAt,       \* value -> a task was in flight when it arrived
    effFailure,      \* value -> "threw" (effectFn), "errored" (its observable), "none"
    effResub,        \* config.resubscribeOnError
    effSubscribed,   \* the outer stream still delivers source values
    effTerminal,     \* calls of the error handler of the outer subscription
    effSourceErrors, \* errors the source stream ended with
    effResubscribes, \* subscribe() calls made by the error handler
    effDestroyCalls, \* destroy() calls made so far
    effDestroyThrew, \* a destroy() call threw
    effArrivedAtDestroy, \* source values seen when destroy() was first called, or -1
    effArrivedAtError,   \* the source value of the first source error, or -1
    \* ---- wrappers around store.dispatch ----
    storeDispatch,   \* what store.dispatch is now: a layer's wrapper, or BaseDispatch
    previousDispatch, \* layer -> the dispatch its wrapper captured, or NotInstalled
    isDestroyed,     \* rxActionEffect layer -> let isDestroyed
    isEnabled,       \* StoreActionTracker._isEnabled
    trackerEnables,  \* enable() calls that installed a wrapper
    dispatchLog,     \* what ran during the most recent store.dispatch call, in order
    dispatchedType,  \* the type of the most recently dispatched action
    activeAtCall,    \* the layers installed and not destroyed/disabled at that call
    nWrapCalls,      \* store.dispatch calls made so far
    \* ---- lazy reducer registry ----
    reducerMap,      \* ReducerRegistry.reducerMap: key -> slice reducer, or Absent
    baseReducer,     \* ReducerRegistry.baseReducer, or NoBase
    listeners,       \* ReducerRegistry.listeners
    unsubscribed,    \* listeners whose unsubscribe function was called since they were added
    listenerCalls,   \* the listeners the most recent registry call ran, in order
    lazyLast,        \* what the most recent registry or store call was
    lazyMode,        \* how the store was configured: "none", "plain" or "lazy"
    lazyRoot,        \* the root reducer the store holds
    lazyState,       \* getState() of that store
    lazyLog,         \* what the most recent loadReducer call did, in order
    lazyDispatched,  \* the most recent dispatch: action type, state before and after
    lazyApplied,     \* the most recent call of a reducer getCombinedReducer() returned
    unloaders,       \* the keys loadReducer returned an unload function for
    keysAtConfigure, \* the keys registered when the store was configured
    nLazyOps,        \* registry and store calls made so far
    \* ---- NgRedux over replaceable containers ----
    swStore,         \* NgRedux._store: the container in use, or NoStore
    swUnsubscribe,   \* NgRedux._unsubscribe: the container its internal listener is on, or NoStore
    containers,      \* container -> [state, listeners]
    swSubject,       \* AbstractStore._store$: the last value pushed
    swSelects,       \* the subscribers of select() streams
    emitted,         \* select subscriber -> the values emitted to it, in order
    registered,      \* the listeners passed to NgRedux.subscribe so far
    lastSwap,        \* what the most recent call did
    nSwapOps,        \* calls made so far
    \* ---- ReducerService sub-reducers ----
    subReducers,     \* ReducerService: hash -> the sub-reducer stored, or NoSubReducer
    subLive,         \* the hashes registered and not unregistered or reset since
    subFirst,        \* hash -> the reducer of its first registration since it was last absent
    lastSub,         \* what the most recent ReducerService call did
    nSubOps,         \* ReducerService calls made so far
    \* ---- change-detection notifiers ----
    cdForced,        \* the instance is a ZonelessNgRedux
    cdHasZone,       \* NgRedux.ngZone was injected
    cdZoneless,      \* NgRedux._isZoneless
    cdConfigured,    \* configureStore was called
    cdNotifier,      \* NgRedux._cdNotifier
    cdCount,         \* getState().counter
    notifyCalls,     \* notifier -> calls of its notify()
    ticks,           \* calls of ApplicationRef.tick()
    turnNotifies,    \* notify() calls of the zoneless notifier since the last microtask checkpoint
    turnTicks,       \* tick() calls since the last microtask checkpoint
    lastCd,          \* what the most recent call did
    nCdOps,          \* calls made so far
    \* ---- StoreActionTracker ----
    trEnabled,       \* StoreActionTracker._isEnabled
    trWrappers,      \* the wrapper functions enable() has put into store.dispatch
    trPrevious,      \* StoreActionTracker.previousDispatch: NotInstalled, BaseDispatch or a wrapper of the tracker
    trInfo,          \* StoreActionTracker.info: actionCount, lastActionType, actionHistory
    trTyped,         \* the truthy types of the dispatches tracked since construction or reset()
    trCounter,       \* the actions the store has applied
    lastTr,          \* what the most recent call did
    nTrOps,          \* calls made so far
    \* ---- RxEffectRef.trigger ----
    effTriggers,     \* trigger() calls made so far
    lastTrigger,     \* what the most recent trigger() call found and left
    \* ---- ComponentStoreSlice ----
    slHash,          \* the hash the slice reducer is registered under, or NoSlice
    slCountBefore,   \* getSubReducerCount() before the slice was created
    slSubscriptions, \* ComponentStoreSlice.subscriptions: the open ones
    slDestroys,      \* destroy() calls made so far
    slValue,         \* the root state at the path of the slice
    slProcessed,     \* dispatches the slice reducer has processed
    lastSl,          \* what the most recent call on the slice or its store did
    nSlOps,          \* calls made so far
    \* ---- rehydrateState ----
    lastHy,          \* the last rehydrateState call: its arguments and its outcome
    nHyOps,          \* rehydrateState calls made
    \* ---- the unload functions of loadReducer ----
    lzLoads,         \* the loadReducer calls made, in order: key and reducer of each
    lzRegBy,         \* per key, the loadReducer call that created its current registration, 0 for none
    lzUnloaded,      \* the calls whose unload function has been called
    lastUnload,      \* the most recent call of an unload function
    \* ---- an object getInfo() returned ----
    trSnapshot,      \* the object: its fields, its actionHistory array and what the caller did to it
    lastSn           \* the most recent change the caller made to the object

storeVars == <<ngStore, isZonelessMode, hasNgZone, redux, rsRootReducer,
               storeSubject, selectSubs, selectSeen, heard, notifyCount, reducerRuns,
               nDispatch, firstReducer, lastDispatchThrew, lastCall>>

entityVars == <<hasSortComparer, estate, nEntityOps, lastEntity>>

selectorVars == <<lastInputs, lastResult, recomputations, selInvocations, selAlloc,
                  selResultFor,
                  nSelCalls, selPrev, lastSel>>

effLifeVars == <<effResub, effSubscribed, effTerminal, effSourceErrors, effResubscribes,
                 effDestroyCalls, effDestroyThrew, effArrivedAtDestroy, effArrivedAtError>>

effectVars == <<effKind, effConcurrency, effArrived, effStatus, effBuffer, effInvoked,
                effObserved, effBusyAt, effFailure, effLifeVars>>

wrapVars == <<storeDispatch, previousDispatch, isDestroyed, isEnabled, trackerEnables,
              dispatchLog, dispatchedType, activeAtCall, nWrapCalls>>

lazyVars == <<reducerMap, baseReducer, listeners, unsubscribed, listenerCalls, lazyLast,
              lazyMode, lazyRoot, lazyState, lazyLog, lazyDispatched, lazyApplied,
              unloaders, keysAtConfigure, nLazyOps>>

swapVars == <<swStore, swUnsubscribe, containers, swSubject, swSelects, emitted, registered,
              lastSwap, nSwapOps>>

baseVars == <<storeVars, replacedWith, entityVars, selectorVars, effectVars, wrapVars,
              lazyVars>>

subVars == <<subReducers, subLive, subFirst, lastSub, nSubOps>>

cdVars == <<cdForced, cdHasZone, cdZoneless, cdConfigured, cdNotifier, cdCount, notifyCalls, ticks, turnNotifies, turnTicks, lastCd, nCdOps>>

trackerVars == <<trEnabled, trWrappers, trPrevious, trInfo, trTyped, trCounter, lastTr, nTrOps>>

triggerVars == <<effTriggers, lastTrigger>>

sliceVars == <<slHash, slCountBefore, slSubscriptions, slDestroys, slValue, slProcessed, lastSl, nSlOps>>

hydrVars == <<lastHy, nHyOps>>

unloadVars == <<lzLoads, lzRegBy, lzUnloaded, lastUnload>>

snapVars == <<trSnapshot, lastSn>>

\* the components added after the lazy registry
laterVars == <<swapVars, subVars, cdVars, trackerVars, triggerVars, sliceVars, hydrVars, unloadVars, snapVars>>

vars == <<baseVars, laterVars>>

(***************************************************************************)
(* NgRedux over a redux store                                              *)
(***************************************************************************)
NoStore    == "undefined"
NoReducer  == "undefined"
\* getState() of a store that does not exist; the value _store$ holds before
\* the first next()
NoState    == -1
\* "created": the store configureStore builds with createStore;
\* "provided": a store built elsewhere and handed to provideStore
StoreIds   == {"created", "provided"}
ReducerIds == {"R1", "R2"}
Composed   == "composed"
ActionTypes == {"INC", "NOP", "BOOM"}
NoAction    == "none"
ListenerIds == {"L1", "L2"}
SelectIds   == {"S1"}
\* the listener setStore registers on the redux store
Internal    == "ngredux"
InitStates  == {0, 1}

\* The user reducers.  Both throw on BOOM and return their input on NOP;
\* R1 adds one on INC, R2 adds two.
Reduce(r, s, a) ==
    CASE a = "BOOM" -> [threw |-> TRUE, state |-> s]
      [] a = "INC"  -> [threw |-> FALSE, state |-> IF r = "R1" THEN s + 1 ELSE s + 2]
      [] OTHER      -> [threw |-> FALSE, state |-> s]

\* The reducer composeReducers returns: it runs the root reducer the
\* ReducerService holds at the time of the call; an exception of the root
\* reducer propagates.
composeReducers(s, a) == Reduce(rsRootReducer, s, a)

\* Run the current reducer of redux store st.
RunReducer(st, s, a) ==
    IF redux[st].reducer = Composed
        THEN composeReducers(s, a)
        ELSE Reduce(redux[st].reducer, s, a)

\* NgRedux.getState()
getState == IF ngStore = NoStore THEN NoState ELSE redux[ngStore].state

\* What a caller can observe of the configuration.
Snapshot ==
    [store     |-> ngStore,
     state     |-> getState,
     listeners |-> IF ngStore = NoStore THEN <<>> ELSE redux[ngStore].listeners,
     selects   |-> selectSubs,
     reducer   |-> rsRootReducer]

\* The record kept of a call: whether it threw, how often it ran a user
\* reducer and the notifier, and what was observable before it.
Call(op, arg, threw, ran, notified) ==
    [op |-> op, arg |-> arg, threw |-> threw, ran |-> ran, notified |-> notified,
     pre |-> Snapshot, afterThrow |-> lastDispatchThrew]

RECURSIVE CountIn(_, _)
CountIn(seq, x) ==
    IF seq = <<>> THEN 0
    ELSE (IF Head(seq) = x THEN 1 ELSE 0) + CountIn(Tail(seq), x)

\* redux calls the listeners in registration order; a subscribe() listener
\* counts the call, the internal listener pushes getState() into _store$,
\* which hands it to the select subscribers.
NotifyListeners(called, s) ==
    /\ heard' = [l \in ListenerIds |-> heard[l] + CountIn(called, l)]
    /\ IF CountIn(called, Internal) > 0
          THEN /\ storeSubject' = s
               /\ selectSeen' = [x \in SelectIds |->
                                    IF x \in selectSubs THEN s ELSE selectSeen[x]]
          ELSE UNCHANGED <<storeSubject, selectSeen>>

\* NgRedux.setStore(store)
setStore(st) ==
    /\ ngStore' = st
    /\ storeSubject' = redux'[st].state
    /\ selectSeen' = [x \in SelectIds |->
                         IF x \in selectSubs THEN redux'[st].state ELSE selectSeen[x]]

\* The mutant: configureStore without the "already initialized" check.
configureStoreUnguarded(reducer, initState) ==
    /\ rsRootReducer' = reducer
    /\ redux' = [redux EXCEPT !["created"] =
                    [state |-> initState, reducer |-> Composed, listeners |-> <<Internal>>]]
    /\ setStore("created")
    /\ firstReducer' = IF firstReducer = NoReducer THEN reducer ELSE firstReducer
    /\ lastCall' = Call("configureStore", NoAction, FALSE, 0, 0)
    /\ UNCHANGED <<isZonelessMode, hasNgZone, selectSubs, heard, notifyCount,
                   reducerRuns, nDispatch, lastDispatchThrew>>

\* NgRedux.configureStore(reducer, initState): createStore keeps initState
\* (the reducers answer redux's INIT action with their input), setStore
\* subscribes the internal listener.
configureStore(reducer, initState) ==
    IF ngStore # NoStore
        THEN /\ lastCall' = Call("configureStore", NoAction, TRUE, 0, 0)
             /\ UNCHANGED <<ngStore, isZonelessMode, hasNgZone, redux, rsRootReducer,
                            storeSubject, selectSubs, selectSeen, heard, notifyCount,
                            reducerRuns, nDispatch, firstReducer, lastDispatchThrew>>
        ELSE /\ rsRootReducer' = reducer
             /\ redux' = [redux EXCEPT !["created"] =
                            [state |-> initState, reducer |-> Composed,
                             listeners |-> <<Internal>>]]
             /\ setStore("created")
             /\ firstReducer' = reducer
             /\ lastCall' = Call("configureStore", NoAction, FALSE, 0, 0)
             /\ UNCHANGED <<isZonelessMode, hasNgZone, selectSubs, heard, notifyCount,
                            reducerRuns, nDispatch, lastDispatchThrew>>

\* NgRedux.provideStore(reducer, store): store.replaceReducer installs the
\* composed reducer (which answers redux's REPLACE action with its input),
\* setStore subscribes the internal listener.
provideStore(reducer) ==
    IF ngStore # NoStore
        THEN /\ lastCall' = Call("provideStore", NoAction, TRUE, 0, 0)
             /\ UNCHANGED <<ngStore, isZonelessMode, hasNgZone, redux, rsRootReducer,
                            storeSubject, selectSubs, selectSeen, heard, notifyCount,
                            reducerRuns, nDispatch, firstReducer, lastDispatchThrew>>
        ELSE /\ rsRootReducer' = reducer
             /\ redux' = [redux EXCEPT !["provided"].reducer = Composed,
                                       !["provided"].listeners = Append(@, Internal)]
             /\ setStore("provided")
             /\ firstReducer' = reducer
             /\ lastCall' = Call("provideStore", NoAction, FALSE, 0, 0)
             /\ UNCHANGED <<isZonelessMode, hasNgZone, selectSubs, heard, notifyCount,
                            reducerRuns, nDispatch, lastDispatchThrew>>

\* The mutant: the notifier is called first, before the store is looked at.
dispatchNotifyFirst(action, inAngularZone) ==
    /\ nDispatch < MaxDispatch
    /\ nDispatch' = nDispatch + 1
    /\ notifyCount' = notifyCount + 1
    /\ IF ngStore = NoStore
          THEN /\ lastCall' = Call("dispatch", action, TRUE, 0, 1)
               /\ UNCHANGED <<ngStore, isZonelessMode, hasNgZone, redux, rsRootReducer,
                              storeSubject, selectSubs, selectSeen, heard, reducerRuns,
                              firstReducer, lastDispatchThrew>>
          ELSE LET r == RunReducer(ngStore, redux[ngStore].state, action)
               IN  /\ reducerRuns' = reducerRuns + 1
                   /\ lastCall' = Call("dispatch", action, r.threw, 1, 1)
                   /\ lastDispatchThrew' = r.threw
                   /\ IF r.threw
                         THEN UNCHANGED <<redux, storeSubject, selectSeen, heard>>
                         ELSE /\ redux' = [redux EXCEPT ![ngStore].state = r.state]
                              /\ NotifyListeners(redux[ngStore].listeners, r.state)
                   /\ UNCHANGED <<ngStore, isZonelessMode, hasNgZone, rsRootReducer,
                                  selectSubs, firstReducer>>

\* NgRedux.dispatch(action).  redux's dispatch runs the reducer, stores its
\* result and then calls the listeners; when the reducer throws, the state is
\* not assigned and no listener is called.
dispatch(action, inAngularZone) ==
    /\ nDispatch < MaxDispatch
    /\ nDispatch' = nDispatch + 1
    /\ IF ngStore = NoStore
          THEN /\ lastCall' = Call("dispatch", action, TRUE, 0, 0)
               /\ UNCHANGED <<ngStore, isZonelessMode, hasNgZone, redux, rsRootReducer,
                              storeSubject, selectSubs, selectSeen, heard, notifyCount,
                              reducerRuns, firstReducer, lastDispatchThrew>>
          ELSE LET r == RunReducer(ngStore, redux[ngStore].state, action)
                   \* the ngZone.run branch returns before the notifier is reached
                   viaZone == ~isZonelessMode /\ hasNgZone /\ ~inAngularZone
                   n == IF ~r.threw /\ ~viaZone /\ isZonelessMode THEN 1 ELSE 0
               IN  /\ reducerRuns' = reducerRuns + 1
                   /\ notifyCount' = notifyCount + n
                   /\ lastCall' = Call("dispatch", action, r.threw, 1, n)
                   /\ lastDispatchThrew' = r.threw
                   /\ IF r.threw
                         THEN UNCHANGED <<redux, storeSubject, selectSeen, heard>>
                         ELSE /\ redux' = [redux EXCEPT ![ngStore].state = r.state]
                              /\ NotifyListeners(redux[ngStore].listeners, r.state)
                   /\ UNCHANGED <<ngStore, isZonelessMode, hasNgZone, rsRootReducer,
                                  selectSubs, firstReducer>>

\* NgRedux.subscribe(listener), on a configured store
subscribe(l) ==
    /\ ngStore # NoStore
    /\ CountIn(redux[ngStore].listeners, l) = 0
    /\ redux' = [redux EXCEPT ![ngStore].listeners = Append(@, l)]
    /\ lastCall' = Call("subscribe", NoAction, FALSE, 0, 0)
    /\ UNCHANGED <<ngStore, isZonelessMode, hasNgZone, rsRootReducer, storeSubject,
                   selectSubs, selectSeen, heard, notifyCount, reducerRuns, nDispatch,
                   firstReducer, lastDispatchThrew>>

\* select().subscribe(): the subscriber receives the value _store$ replays.
selectSubscribe(x) ==
    /\ x \notin selectSubs
    /\ selectSubs' = selectSubs \cup {x}
    /\ selectSeen' = [selectSeen EXCEPT ![x] = storeSubject]
    /\ lastCall' = Call("select", NoAction, FALSE, 0, 0)
    /\ UNCHANGED <<ngStore, isZonelessMode, hasNgZone, redux, rsRootReducer, storeSubject,
                   heard, notifyCount, reducerRuns, nDispatch, firstReducer,
                   lastDispatchThrew>>

\* ReducerService.replaceReducer(next): the root reducer composeReducers runs
\* from now on
rsReplaceReducer(next) == next

\* replaceReducer done as redux's own store.replaceReducer does it: the
\* reducer is swapped, a REPLACE action is run through it and the listeners
\* are called
replaceReducerViaRedux(next) ==
    /\ rsRootReducer' = rsReplaceReducer(next)
    /\ replacedWith' = IF ngStore # NoStore THEN next ELSE replacedWith
    /\ lastCall' = Call("replaceReducer", next, FALSE, 0, 0)
    /\ IF ngStore # NoStore
          THEN /\ reducerRuns' = reducerRuns + 1
               /\ NotifyListeners(redux[ngStore].listeners, redux[ngStore].state)
          ELSE UNCHANGED <<reducerRuns, storeSubject, selectSeen, heard>>
    /\ UNCHANGED <<ngStore, isZonelessMode, hasNgZone, redux, selectSubs, notifyCount,
                   nDispatch, firstReducer, lastDispatchThrew>>

\* NgRedux.replaceReducer(next): ReducerService.getInstance().replaceReducer(next)
replaceReducer(next) ==
    /\ rsRootReducer' = rsReplaceReducer(next)
    /\ replacedWith' = IF ngStore # NoStore THEN next ELSE replacedWith
    /\ lastCall' = Call("replaceReducer", next, FALSE, 0, 0)
    /\ UNCHANGED <<ngStore, isZonelessMode, hasNgZone, redux, storeSubject, selectSubs,
                   selectSeen, heard, notifyCount, reducerRuns, nDispatch, firstReducer,
                   lastDispatchThrew>>

\* new NgRedux(ngZone, appRef): isZoneless() is true without an NgZone.
InitStore ==
    /\ ngStore = NoStore
    /\ isZonelessMode \in BOOLEAN
    /\ hasNgZone \in BOOLEAN
    /\ (~hasNgZone => isZonelessMode)
    /\ redux = [st \in StoreIds |-> [state |-> 0, reducer |-> "R2", listeners |-> <<>>]]
    /\ rsRootReducer = NoReducer
    /\ storeSubject = NoState
    /\ selectSubs = {}
    /\ selectSeen = [x \in SelectIds |-> NoState]
    /\ heard = [l \in ListenerIds |-> 0]
    /\ notifyCount = 0
    /\ reducerRuns = 0
    /\ nDispatch = 0
    /\ firstReducer = NoReducer
    /\ replacedWith = NoReducer
    /\ lastDispatchThrew = FALSE
    /\ lastCall = [op |-> "new", arg |-> NoAction, threw |-> FALSE, ran |-> 0,
                   notified |-> 0, afterThrow |-> FALSE,
                   pre |-> [store |-> NoStore, state |-> NoState, listeners |-> <<>>,
                            selects |-> {}, reducer |-> NoReducer]]

\* an instance nothing is done with, for the specifications of the other
\* components
IdleStore == InitStore /\ isZonelessMode /\ hasNgZone

ConfigureStore == \E r \in ReducerIds, s \in InitStates : configureStore(r, s)
ProvideStore   == \E r \in ReducerIds : provideStore(r)
Dispatch       == \E a \in ActionTypes, z \in BOOLEAN : dispatch(a, z)
Subscribe      == \E l \in ListenerIds : subscribe(l)
SelectSubscribe == \E x \in SelectIds : selectSubscribe(x)
ReplaceReducer  == \E r \in ReducerIds : replaceReducer(r)

\* the other components stay as constructed while the store runs
StoreFrame == UNCHANGED <<replacedWith, entityVars, selectorVars, effectVars, wrapVars, lazyVars, laterVars>>

NextStore ==
    \/ ConfigureStore /\ StoreFrame
    \/ ProvideStore /\ StoreFrame
    \/ Dispatch /\ StoreFrame
    \/ Subscribe /\ StoreFrame
    \/ SelectSubscribe /\ StoreFrame

\* the replaced reducer is the only thing a replaceReducer call touches
ReplaceFrame == UNCHANGED <<entityVars, selectorVars, effectVars, wrapVars, lazyVars, laterVars>>

\* the store with its root reducer replaced at any time
NextStoreReplace ==
    \/ ConfigureStore /\ StoreFrame
    \/ ProvideStore /\ StoreFrame
    \/ Dispatch /\ StoreFrame
    \/ Subscribe /\ StoreFrame
    \/ SelectSubscribe /\ StoreFrame
    \/ ReplaceReducer /\ ReplaceFrame

(***************************************************************************)
(* C1: a configureStore or provideStore call on an instance that is        *)
(* already configured throws and changes nothing: the state, the           *)
(* subscribe() listeners, the select subscribers and the reducer in use    *)
(* are what they were, and later dispatches are still computed with the    *)
(* reducer of the first configuration.                                     *)
(***************************************************************************)
C1_SecondConfigureRejected ==
    /\ (lastCall.op \in {"configureStore", "provideStore"} /\ lastCall.pre.store # NoStore)
          => (lastCall.threw /\ Snapshot = lastCall.pre)
    /\ (lastCall.op = "dispatch" /\ lastCall.pre.store # NoStore /\ ~lastCall.threw)
          => getState = Reduce(firstReducer, lastCall.pre.state, lastCall.arg).state

C1_Witness ==
    /\ lastCall.op \in {"configureStore", "provideStore"}
    /\ lastCall.threw
    /\ lastCall.pre.state > 1
    /\ Len(lastCall.pre.listeners) > 1
    /\ lastCall.pre.selects # {}

(***************************************************************************)
(* C2: when the reducer throws during dispatch, dispatch throws, the state *)
(* is the state before the dispatch and the notifier is not called; the    *)
(* next dispatch of an action the reducer accepts is processed normally.   *)
(***************************************************************************)
C2_ReducerThrowLeavesState ==
    /\ (lastCall.op = "dispatch" /\ lastCall.ran > 0 /\ lastDispatchThrew)
          => /\ lastCall.threw
             /\ getState = lastCall.pre.state
             /\ lastCall.notified = 0
    /\ (lastCall.op = "dispatch" /\ lastCall.afterThrow /\ lastCall.arg # "BOOM")
          => /\ ~lastCall.threw
             /\ lastCall.ran = 1
             /\ getState = Reduce(rsRootReducer, lastCall.pre.state, lastCall.arg).state

C2_Witness ==
    /\ lastCall.op = "dispatch"
    /\ lastCall.afterThrow
    /\ lastCall.arg = "INC"
    /\ isZonelessMode
    /\ getState > lastCall.pre.state

(***************************************************************************)
(* C3: dispatch on an instance that was never configured throws, runs no   *)
(* reducer and calls no notifier.                                          *)
(***************************************************************************)
C3_DispatchBeforeConfigure ==
    (lastCall.op = "dispatch" /\ lastCall.pre.store = NoStore)
        => (lastCall.threw /\ lastCall.ran = 0 /\ lastCall.notified = 0
            /\ reducerRuns = 0 /\ notifyCount = 0)

C3_Witness ==
    /\ lastCall.op = "dispatch"
    /\ lastCall.pre.store = NoStore
    /\ lastCall.threw
    /\ isZonelessMode


(***************************************************************************)
(* The entity adapter                                                      *)
(*                                                                         *)
(* An entity is [id, name]; selectId is the default entity => entity.id    *)
(* and the sortComparer compares name.  An entity state is                 *)
(* [ref, ids, entities, extra]: entities is a function whose domain is the *)
(* set of keys of the dictionary, extra the additional properties given to *)
(* getInitialState.  References are compared only between the input of an  *)
(* operation and its result: the input has ref 0 and every object          *)
(* allocated on the way to the result has the ref of the object it was     *)
(* built from plus one.                                                    *)
(***************************************************************************)
Ids      == 1..MaxId
Keys     == 1..MaxKey
NoChange == 0
Entities == [id : Ids, name : Keys]
Changes  == [id : Ids \cup {NoChange}, name : Keys \cup {NoChange}]
Updates  == [id : Ids, changes : Changes]
AdditionalState == {<<"loading", FALSE>>}

SeqsUpTo(S, n) == UNION {[1..k -> S] : k \in 0..n}

selectId(entity) == entity.id

\* a.name.localeCompare(b.name) <= 0
sortComparerLeq(a, b) == a.name <= b.name

\* Array.prototype.sort is stable: an element goes behind the elements that
\* compare equal to it.
RECURSIVE InsertSorted(_, _)
InsertSorted(sorted, e) ==
    IF sorted = <<>> THEN <<e>>
    ELSE IF sortComparerLeq(Head(sorted), e)
            THEN <<Head(sorted)>> \o InsertSorted(Tail(sorted), e)
            ELSE <<e>> \o sorted

RECURSIVE StableSort(_)
StableSort(seq) ==
    IF seq = <<>> THEN <<>>
    ELSE InsertSorted(StableSort(SubSeq(seq, 1, Len(seq) - 1)), seq[Len(seq)])

\* state.ids.map(id => state.entities[id]).filter(Boolean)
RECURSIVE Lookup(_, _)
Lookup(ids, entities) ==
    IF ids = <<>> THEN <<>>
    ELSE (IF Head(ids) \in DOMAIN entities THEN <<entities[Head(ids)]>> ELSE <<>>)
            \o Lookup(Tail(ids), entities)

MapSelectId(seq) == [i \in 1..Len(seq) |-> selectId(seq[i])]

\* { ...entities, [id]: entity }
Put(entities, id, entity) ==
    [k \in DOMAIN entities \cup {id} |-> IF k = id THEN entity ELSE entities[k]]

\* delete entities[id]
Delete(entities, id) == [k \in DOMAIN entities \ {id} |-> entities[k]]

\* ids.filter(existingId => existingId !== id)
RECURSIVE Without(_, _)
Without(ids, id) ==
    IF ids = <<>> THEN <<>>
    ELSE (IF Head(ids) # id THEN <<Head(ids)>> ELSE <<>>) \o Without(Tail(ids), id)

\* { ...existing, ...changes }
Merge(existing, changes) ==
    [id   |-> IF changes.id # NoChange THEN changes.id ELSE existing.id,
     name |-> IF changes.name # NoChange THEN changes.name ELSE existing.name]

sortEntities(state) ==
    IF ~hasSortComparer THEN state
    ELSE [state EXCEPT !.ref = @ + 1,
                       !.ids = MapSelectId(StableSort(Lookup(state.ids, state.entities)))]

getInitialState(additionalState) ==
    [ref |-> 0, ids |-> <<>>, entities |-> <<>>, extra |-> additionalState]

\* The mutant: the entity is added again although its id is present.
addOneUnchecked(state, entity) ==
    sortEntities([ref      |-> state.ref + 1,
                  ids      |-> Append(state.ids, selectId(entity)),
                  entities |-> Put(state.entities, selectId(entity), entity),
                  extra    |-> {}])

addOne(state, entity) ==
    LET id == selectId(entity)
    IN  IF id \in DOMAIN state.entities THEN state
        ELSE sortEntities([ref      |-> state.ref + 1,
                           ids      |-> Append(state.ids, id),
                           entities |-> Put(state.entities, id, entity),
                           extra    |-> {}])

RECURSIVE addMany(_, _)
addMany(state, entities) ==
    IF entities = <<>> THEN state
    ELSE addMany(addOne(state, Head(entities)), Tail(entities))

\* newEntities[id] = entity; ids.push(id), for every entity of the list
RECURSIVE CollectAll(_, _)
CollectAll(acc, entities) ==
    IF entities = <<>> THEN acc
    ELSE CollectAll([ids      |-> Append(acc.ids, selectId(Head(entities))),
                     entities |-> Put(acc.entities, selectId(Head(entities)), Head(entities))],
                    Tail(entities))

setAll(state, entities) ==
    LET all == CollectAll([ids |-> <<>>, entities |-> <<>>], entities)
    IN  sortEntities([ref |-> state.ref + 1, ids |-> all.ids, entities |-> all.entities,
                      extra |-> {}])

setOne(state, entity) ==
    LET id     == selectId(entity)
        exists == id \in DOMAIN state.entities
    IN  sortEntities([ref      |-> state.ref + 1,
                      ids      |-> IF exists THEN state.ids ELSE Append(state.ids, id),
                      entities |-> Put(state.entities, id, entity),
                      extra    |-> {}])

removeOne(state, id) ==
    IF id \notin DOMAIN state.entities THEN state
    ELSE [ref      |-> state.ref + 1,
          ids      |-> Without(state.ids, id),
          entities |-> Delete(state.entities, id),
          extra    |-> {}]

RECURSIVE removeMany(_, _)
removeMany(state, ids) ==
    IF ids = <<>> THEN state
    ELSE removeMany(removeOne(state, Head(ids)), Tail(ids))

removeAll(state) ==
    [ref |-> state.ref + 1, ids |-> <<>>, entities |-> <<>>, extra |-> {}]

updateOne(state, update) ==
    IF update.id \notin DOMAIN state.entities THEN state
    ELSE sortEntities([ref      |-> state.ref + 1,
                       ids      |-> state.ids,
                       entities |-> Put(state.entities, update.id,
                                        Merge(state.entities[update.id], update.changes)),
                       extra    |-> {}])

RECURSIVE updateMany(_, _)
updateMany(state, updates) ==
    IF updates = <<>> THEN state
    ELSE updateMany(updateOne(state, Head(updates)), Tail(updates))

upsertOne(state, entity) ==
    IF selectId(entity) \in DOMAIN state.entities
        THEN setOne(state, entity)
        ELSE addOne(state, entity)

RECURSIVE upsertMany(_, _)
upsertMany(state, entities) ==
    IF entities = <<>> THEN state
    ELSE upsertMany(upsertOne(state, Head(entities)), Tail(entities))

\* The reducer hands its state to the operation and keeps the result.  noop
\* records that the operation was given only present entities (add) or only
\* absent ids (remove, update).
Apply(op, result, noop) ==
    /\ nEntityOps' = nEntityOps + 1
    /\ estate' = [result EXCEPT !.ref = 0]
    /\ lastEntity' = [op |-> op, same |-> (result.ref = estate.ref), noop |-> noop]
    /\ UNCHANGED hasSortComparer

Present(id) == id \in DOMAIN estate.entities

AddOne     == \E e \in Entities : Apply("addOne", addOne(estate, e), Present(e.id))
AddMany    == \E l \in SeqsUpTo(Entities, MaxList) :
                 Apply("addMany", addMany(estate, l),
                       \A i \in 1..Len(l) : Present(l[i].id))
SetAll     == \E l \in SeqsUpTo(Entities, MaxList) : Apply("setAll", setAll(estate, l), FALSE)
SetOne     == \E e \in Entities : Apply("setOne", setOne(estate, e), FALSE)
RemoveOne  == \E id \in Ids : Apply("removeOne", removeOne(estate, id), ~Present(id))
RemoveMany == \E l \in SeqsUpTo(Ids, MaxList) :
                 Apply("removeMany", removeMany(estate, l),
                       \A i \in 1..Len(l) : ~Present(l[i]))
RemoveAll  == Apply("removeAll", removeAll(estate), FALSE)
UpdateOne  == \E u \in Updates : Apply("updateOne", updateOne(estate, u), ~Present(u.id))
UpdateMany == \E l \in SeqsUpTo(Updates, MaxList) :
                 Apply("updateMany", updateMany(estate, l),
                       \A i \in 1..Len(l) : ~Present(l[i].id))
UpsertOne  == \E e \in Entities : Apply("upsertOne", upsertOne(estate, e), FALSE)
UpsertMany == \E l \in SeqsUpTo(Entities, MaxList) :
                 Apply("upsertMany", upsertMany(estate, l), FALSE)

\* createEntityAdapter(config) and getInitialState(additionalState?)
InitEntity ==
    /\ hasSortComparer \in BOOLEAN
    /\ \E a \in {{}, AdditionalState} :
          estate = getInitialState(a)
    /\ nEntityOps = 0
    /\ lastEntity = [op |-> "getInitialState", same |-> FALSE, noop |-> FALSE]

\* the adapter at rest, for the specifications of the other components
IdleEntity ==
    /\ hasSortComparer = FALSE
    /\ estate = getInitialState({})
    /\ nEntityOps = 0
    /\ lastEntity = [op |-> "getInitialState", same |-> FALSE, noop |-> FALSE]

\* the other components stay as constructed while the adapter runs
EntityFrame == UNCHANGED <<storeVars, replacedWith, selectorVars, effectVars, wrapVars, lazyVars, laterVars>>

\* one reducer call, of at most MaxEntityOps
EntityStep(op) == nEntityOps < MaxEntityOps /\ op /\ EntityFrame

NextEntity ==
    \/ EntityStep(AddOne)
    \/ EntityStep(AddMany)
    \/ EntityStep(SetAll)
    \/ EntityStep(SetOne)
    \/ EntityStep(RemoveOne)
    \/ EntityStep(RemoveMany)
    \/ EntityStep(RemoveAll)
    \/ EntityStep(UpdateOne)
    \/ EntityStep(UpdateMany)
    \/ EntityStep(UpsertOne)
    \/ EntityStep(UpsertMany)

\* one reducer call on an adapter with a sortComparer, of at most MaxSortedOps
SortedStep(op) == hasSortComparer /\ nEntityOps < MaxSortedOps /\ op /\ EntityFrame

\* the operations of the sort invariant
NextEntitySorted ==
    \/ SortedStep(AddMany)
    \/ SortedStep(SetOne)
    \/ SortedStep(UpdateOne)

(***************************************************************************)
(* C4: after any sequence of adapter operations ids holds no id twice and  *)
(* the set of its members is the set of keys of entities.                  *)
(***************************************************************************)
NoDuplicates(seq) == \A i, j \in 1..Len(seq) : seq[i] = seq[j] => i = j

C4_IdsMatchEntities ==
    /\ NoDuplicates(estate.ids)
    /\ {estate.ids[i] : i \in 1..Len(estate.ids)} = DOMAIN estate.entities

IsSorted(seq) == \A i \in 1..(Len(seq) - 1) : sortComparerLeq(seq[i], seq[i + 1])

C6_IdsSorted == hasSortComparer => IsSorted(Lookup(estate.ids, estate.entities))

(***************************************************************************)
(* The memoized selector                                                   *)
(*                                                                         *)
(* Input selector i returns state[i], an object reference.  The result     *)
(* function returns a new object on every invocation that completes:       *)
(* object n is the n-th one it returned.  Whether an invocation throws is  *)
(* the result function's choice.                                           *)
(***************************************************************************)
InputVals      == 1..MaxInputVal
SelStates      == [1..NumSelectors -> InputVals]
NoInputs       == [set |-> FALSE, vals |-> <<>>]
UndefinedResult == 0

\* the loop over currentInputs[i] !== lastInputs[i]
allEqual(currentInputs) ==
    \A i \in 1..Len(currentInputs) : currentInputs[i] = lastInputs.vals[i]

\* The history every selector operation keeps for the properties.
SelRecord(op, inputs, invoked, threw, value) ==
    /\ lastSel' = [op |-> op, inputs |-> inputs, invoked |-> invoked, threw |-> threw,
                   value |-> value,
                   first |-> ~selPrev.sinceRelease,
                   afterRelease |-> (selPrev.any /\ ~selPrev.sinceRelease),
                   changed |-> (selPrev.any /\ inputs # selPrev.inputs),
                   prevReturned |-> (selPrev.sinceRelease /\ selPrev.returned),
                   prevValue |-> selPrev.value]
    /\ selPrev' = IF op = "call"
                     THEN [any |-> TRUE, sinceRelease |-> TRUE, inputs |-> inputs,
                           returned |-> ~threw, value |-> value]
                     ELSE [selPrev EXCEPT !.sinceRelease = FALSE]
    /\ selResultFor' = IF op = "release" THEN NoInputs
                       ELSE IF invoked /\ ~threw THEN [set |-> TRUE, vals |-> inputs]
                       ELSE selResultFor

\* The mutant: only the first input is compared.
memoizedSelectorFirstInput(state, throws) ==
    LET currentInputs == state
    IN  /\ nSelCalls < MaxSelCalls
        /\ nSelCalls' = nSelCalls + 1
        /\ IF lastInputs.set /\ Len(currentInputs) = Len(lastInputs.vals)
                /\ currentInputs[1] = lastInputs.vals[1]
              THEN /\ SelRecord("call", currentInputs, FALSE, FALSE, lastResult)
                   /\ UNCHANGED <<lastInputs, lastResult, recomputations,
                                  selInvocations, selAlloc>>
              ELSE /\ lastInputs' = [set |-> TRUE, vals |-> currentInputs]
                   /\ recomputations' = recomputations + 1
                   /\ selInvocations' = selInvocations + 1
                   /\ IF throws
                         THEN /\ SelRecord("call", currentInputs, TRUE, TRUE, UndefinedResult)
                              /\ UNCHANGED <<lastResult, selAlloc>>
                         ELSE /\ selAlloc' = selAlloc + 1
                              /\ lastResult' = selAlloc + 1
                              /\ SelRecord("call", currentInputs, TRUE, FALSE, selAlloc + 1)

\* memoizedSelector(state)
memoizedSelector(state, throws) ==
    LET currentInputs == state
    IN  /\ nSelCalls < MaxSelCalls
        /\ nSelCalls' = nSelCalls + 1
        /\ IF lastInputs.set /\ Len(currentInputs) = Len(lastInputs.vals)
                /\ allEqual(currentInputs)
              THEN /\ SelRecord("call", currentInputs, FALSE, FALSE, lastResult)
                   /\ UNCHANGED <<lastInputs, lastResult, recomputations,
                                  selInvocations, selAlloc>>
              ELSE /\ lastInputs' = [set |-> TRUE, vals |-> currentInputs]
                   /\ recomputations' = recomputations + 1
                   /\ selInvocations' = selInvocations + 1
                   /\ IF throws
                         THEN /\ SelRecord("call", currentInputs, TRUE, TRUE, UndefinedResult)
                              /\ UNCHANGED <<lastResult, selAlloc>>
                         ELSE /\ selAlloc' = selAlloc + 1
                              /\ lastResult' = selAlloc + 1
                              /\ SelRecord("call", currentInputs, TRUE, FALSE, selAlloc + 1)

\* The mutant: release() clears the cache but keeps the counter.
releaseKeepCounter ==
    /\ lastSel.op # "release"
    /\ lastInputs' = NoInputs
    /\ lastResult' = UndefinedResult
    /\ selInvocations' = 0
    /\ SelRecord("release", <<>>, FALSE, FALSE, UndefinedResult)
    /\ UNCHANGED <<recomputations, selAlloc, nSelCalls>>

\* memoizedSelector.release(); a second release() in a row changes nothing
release ==
    /\ lastSel.op # "release"
    /\ lastInputs' = NoInputs
    /\ lastResult' = UndefinedResult
    /\ recomputations' = 0
    /\ selInvocations' = 0
    /\ SelRecord("release", <<>>, FALSE, FALSE, UndefinedResult)
    /\ UNCHANGED <<selAlloc, nSelCalls>>

\* createSelector(s1, ..., sN, resultFn)
InitSelector ==
    /\ lastInputs = NoInputs
    /\ lastResult = UndefinedResult
    /\ recomputations = 0
    /\ selInvocations = 0
    /\ selAlloc = 0
    /\ selResultFor = NoInputs
    /\ nSelCalls = 0
    /\ selPrev = [any |-> FALSE, sinceRelease |-> FALSE, inputs |-> <<>>,
                  returned |-> FALSE, value |-> UndefinedResult]
    /\ lastSel = [op |-> "new", inputs |-> <<>>, invoked |-> FALSE, threw |-> FALSE,
                  value |-> UndefinedResult, first |-> FALSE, afterRelease |-> FALSE,
                  changed |-> FALSE, prevReturned |-> FALSE, prevValue |-> UndefinedResult]

IdleSelector == InitSelector

SelectorCall == \E state \in SelStates, throws \in BOOLEAN : memoizedSelector(state, throws)
Release      == release

\* the other components stay as constructed while the selector runs
SelectorFrame == UNCHANGED <<storeVars, replacedWith, entityVars, effectVars, wrapVars, lazyVars, laterVars>>

NextSelector ==
    \/ SelectorCall /\ SelectorFrame
    \/ Release /\ SelectorFrame

(***************************************************************************)
(* C7: a call invokes the result function exactly when it is the first     *)
(* call since construction or release(), or an input selector returned an  *)
(* object other than the one it returned on the call before; a call that   *)
(* does not invoke it returns the object the call before returned.         *)
(***************************************************************************)
C7_InvokedIffInputsChanged ==
    lastSel.op = "call" =>
        /\ lastSel.invoked <=> (lastSel.first \/ lastSel.changed)
        /\ (~lastSel.invoked /\ lastSel.prevReturned)
              => (~lastSel.threw /\ lastSel.value = lastSel.prevValue)

C7_Witness ==
    /\ lastSel.op = "call"
    /\ ~lastSel.invoked
    /\ lastSel.prevReturned
    /\ lastSel.value = lastSel.prevValue
    /\ recomputations > 1

(***************************************************************************)
(* C8: recomputations() is the number of result-function invocations since *)
(* construction or the last release(); release() sets it to 0 and the call *)
(* after it invokes the result function whatever its inputs are.           *)
(***************************************************************************)
C8_RecomputationsCountInvocations ==
    /\ recomputations = selInvocations
    /\ lastSel.op = "release" => recomputations = 0
    /\ (lastSel.op = "call" /\ lastSel.afterRelease) => lastSel.invoked

C8_Witness ==
    /\ lastSel.op = "call"
    /\ lastSel.afterRelease
    /\ ~lastSel.changed
    /\ lastSel.invoked
    /\ recomputations = 1
    /\ selAlloc > 1

(***************************************************************************)
(* C33: whenever a call returns without invoking the result function, the  *)
(* value it returns is the one the result function returned for inputs     *)
(* reference-equal to the inputs of that call, also after a call in which  *)
(* the result function threw.                                              *)
(***************************************************************************)
C33_CachedResultMatchesInputs ==
    (lastSel.op = "call" /\ ~lastSel.invoked) =>
        /\ selResultFor.set
        /\ selResultFor.vals = lastSel.inputs
        /\ lastSel.value = lastResult

(***************************************************************************)
(* rxEffect and rxActionEffect                                             *)
(*                                                                         *)
(* The source (the select stream of rxEffect, actionSubject$ of            *)
(* rxActionEffect) hands its values to the flattening operator, which      *)
(* calls effectFn and subscribes to what it returns.  Source values are    *)
(* numbered in arrival order and the task of value n is task n.            *)
(*   "none"      not arrived yet                                           *)
(*   "active"    effectFn returned an observable that is subscribed        *)
(*   "queued"    waiting in the buffer of concatMap                        *)
(*   "dropped"   ignored by exhaustMap                                     *)
(*   "done"      the inner observable completed                            *)
(*   "cancelled" the inner observable was unsubscribed                     *)
(***************************************************************************)
Values        == 1..MaxValues
Unset         == "unset"
Concurrencies == {"switch", "merge", "exhaust", "concat"}
\* what one call of effectFn does: return an observable, throw, or return
\* something that is no observable; the last two yield EMPTY
InvokeKinds   == {"observable", "throws", "notObservable"}

\* The mutant: 'switch' and the default are mapped to mergeMap.
getFlattenOperatorSwitchAsMerge(concurrency) ==
    CASE concurrency = "merge"   -> "mergeMap"
      [] concurrency = "exhaust" -> "exhaustMap"
      [] concurrency = "concat"  -> "concatMap"
      [] OTHER                   -> "mergeMap"

\* The mutant: 'exhaust' is mapped to concatMap.
getFlattenOperatorExhaustAsConcat(concurrency) ==
    CASE concurrency = "merge"   -> "mergeMap"
      [] concurrency = "exhaust" -> "concatMap"
      [] concurrency = "concat"  -> "concatMap"
      [] OTHER                   -> "switchMap"

\* The mutant: 'concat' is mapped to mergeMap.
getFlattenOperatorConcatAsMerge(concurrency) ==
    CASE concurrency = "merge"   -> "mergeMap"
      [] concurrency = "exhaust" -> "exhaustMap"
      [] concurrency = "concat"  -> "mergeMap"
      [] OTHER                   -> "switchMap"

getFlattenOperator(concurrency) ==
    CASE concurrency = "merge"   -> "mergeMap"
      [] concurrency = "exhaust" -> "exhaustMap"
      [] concurrency = "concat"  -> "concatMap"
      [] OTHER                   -> "switchMap"

Active(status) == {v \in Values : status[v] = "active"}

\* The project function of the flattening operator: effectFn is called in a
\* try block; what is not an observable, and a synchronous throw, become
\* EMPTY, which completes on subscription.
Project(status, v, kind) ==
    [status EXCEPT ![v] = IF kind = "observable" THEN "active" ELSE "done"]

\* concatMap on completion of the active inner: the buffered values are
\* projected in order until one yields an observable that stays subscribed.
RECURSIVE Drain(_, _, _, _)
Drain(status, buffer, invoked, kinds) ==
    IF buffer = <<>>
        THEN [status |-> status, buffer |-> buffer, invoked |-> invoked]
        ELSE LET v == Head(buffer)
             IN  IF kinds[v] = "observable"
                    THEN [status  |-> Project(status, v, kinds[v]),
                          buffer  |-> Tail(buffer),
                          invoked |-> Append(invoked, v)]
                    ELSE Drain(Project(status, v, kinds[v]), Tail(buffer),
                               Append(invoked, v), kinds)

InSeq(seq, x) == \E i \in 1..Len(seq) : seq[i] = x

\* What the flattening operator gets from one call of effectFn: the call sits
\* in a try block, so a synchronous throw, like a result that is no
\* observable, yields EMPTY.  The mutant calls effectFn outside the try
\* block, and the exception becomes an error of the projected stream.
ProjectResultUnguarded(kind) ==
    CASE kind = "observable" -> "observable"
      [] kind = "throws"     -> "error"
      [] OTHER               -> "EMPTY"

ProjectResult(kind) ==
    CASE kind = "observable" -> "observable"
      [] OTHER               -> "EMPTY"

\* Unsubscribing the outer subscription, or an error passing through the
\* flattening operator, ends the inner subscriptions and forgets the buffer.
TornDown(status) ==
    [w \in Values |-> CASE status[w] = "active" -> "cancelled"
                        [] status[w] = "queued" -> "discarded"
                        [] OTHER                -> status[w]]

\* Whether the source hands its current value to a new subscriber at once:
\* the stream store.select returns does, actionSubject$ is a plain Subject.
sourceReplays(kind) == kind = "rxEffect"

\* subscribe() called by the error handler.  A source that replays its current
\* value hands it to the new subscription before subscribe() returns; when
\* that value makes the stream error again the handler runs again inside the
\* call, and so on until the call stack is used up, which leaves no
\* subscription behind.
RECURSIVE subscribeAgain(_, _)
subscribeAgain(replayFails, depth) ==
    IF ~replayFails
        THEN [subscribed |-> TRUE, resubscribes |-> depth + 1]
        ELSE IF depth + 1 >= StackDepth
                THEN [subscribed |-> FALSE, resubscribes |-> depth + 1]
                ELSE subscribeAgain(replayFails, depth + 1)

\* The error handler of the outer subscription.
errorHandler(replayFails) ==
    IF effResub
        THEN subscribeAgain(replayFails, 0)
        ELSE [subscribed |-> FALSE, resubscribes |-> 0]

\* The flattening operator takes source value v.
Flatten(v, kind) ==
    LET op == getFlattenOperator(effConcurrency)
        busy == Active(effStatus) # {}
    IN  CASE op = "switchMap" ->
                  \* the inner subscription is unsubscribed, then effectFn is called
                  /\ effStatus' = Project([w \in Values |->
                                              IF effStatus[w] = "active"
                                                  THEN "cancelled" ELSE effStatus[w]],
                                          v, kind)
                  /\ effInvoked' = Append(effInvoked, v)
                  /\ UNCHANGED effBuffer
             [] op = "mergeMap" ->
                  /\ effStatus' = Project(effStatus, v, kind)
                  /\ effInvoked' = Append(effInvoked, v)
                  /\ UNCHANGED effBuffer
             [] op = "exhaustMap" ->
                  IF busy
                      THEN /\ effStatus' = [effStatus EXCEPT ![v] = "dropped"]
                           /\ UNCHANGED <<effInvoked, effBuffer>>
                      ELSE /\ effStatus' = Project(effStatus, v, kind)
                           /\ effInvoked' = Append(effInvoked, v)
                           /\ UNCHANGED effBuffer
             [] op = "concatMap" ->
                  IF busy
                      THEN /\ effStatus' = [effStatus EXCEPT ![v] = "queued"]
                           /\ effBuffer' = Append(effBuffer, v)
                           /\ UNCHANGED effInvoked
                      ELSE /\ effStatus' = Project(effStatus, v, kind)
                           /\ effInvoked' = Append(effInvoked, v)
                           /\ UNCHANGED effBuffer

\* An error of the projected stream passes the flattening operator and ends
\* the outer stream in the error handler.
ProjectedError(v) ==
    LET h == errorHandler(sourceReplays(effKind))
    IN  /\ effStatus' = [TornDown(effStatus) EXCEPT ![v] = "done"]
        /\ effInvoked' = Append(effInvoked, v)
        /\ effBuffer' = <<>>
        /\ effFailure' = [effFailure EXCEPT ![v] = "threw"]
        /\ effTerminal' = effTerminal + 1
        /\ effSubscribed' = h.subscribed
        /\ effResubscribes' = effResubscribes + h.resubscribes
        /\ UNCHANGED <<effResub, effSourceErrors, effDestroyCalls, effDestroyThrew,
                       effArrivedAtDestroy, effArrivedAtError>>

\* A source value reaches the flattening operator, or finds the effect gone.
OnSourceValue(kind) ==
    LET v  == effArrived + 1
        op == getFlattenOperator(effConcurrency)
        busy == Active(effStatus) # {}
        invokes == op \in {"switchMap", "mergeMap"} \/ ~busy
    IN  /\ effArrived < MaxValues
        /\ effArrived' = v
        /\ effBusyAt' = [effBusyAt EXCEPT ![v] = busy]
        /\ IF ~effSubscribed
              THEN \* takeUntil(destroy$) has completed the stream, isDestroyed is
                   \* set, or the stream ended with an error
                   /\ effStatus' = [effStatus EXCEPT ![v] = "unseen"]
                   /\ UNCHANGED <<effInvoked, effBuffer, effFailure, effLifeVars>>
              ELSE IF invokes /\ ProjectResult(kind) = "error"
                      THEN ProjectedError(v)
                      ELSE /\ Flatten(v, kind)
                           /\ effFailure' = IF invokes /\ kind = "throws"
                                               THEN [effFailure EXCEPT ![v] = "threw"]
                                               ELSE effFailure
                           /\ UNCHANGED effLifeVars
        /\ UNCHANGED <<effKind, effConcurrency, effObserved>>

\* rxEffect: store.select(selector) emits (the current value on
\* subscription, then every changed value).
SelectEmits(kind) == effKind = "rxEffect" /\ OnSourceValue(kind)

\* rxActionEffect: wrappedDispatch sees an action whose type is in actionSet
\* and pushes it into actionSubject$.
MatchingDispatch(kind) == effKind = "rxActionEffect" /\ OnSourceValue(kind)

\* The inner observable of task v emits.
TaskEmit(v) ==
    /\ effStatus[v] = "active"
    /\ Len(effObserved) < MaxEmits
    /\ effObserved' = Append(effObserved, [task |-> v, arrived |-> effArrived])
    /\ UNCHANGED <<effKind, effConcurrency, effArrived, effStatus, effBuffer, effInvoked,
                   effBusyAt, effFailure, effLifeVars>>

\* The inner observable of task v ends: it completes, or it errors and
\* catchError replaces it by EMPTY.  concatMap then projects the buffered
\* values (not after takeUntil has completed the outer stream and the buffer
\* is gone).
TaskEnd(v, kinds, failure) ==
    /\ effStatus[v] = "active"
    /\ IF getFlattenOperator(effConcurrency) = "concatMap"
          THEN LET d == Drain([effStatus EXCEPT ![v] = "done"], effBuffer, effInvoked, kinds)
               IN  /\ effStatus' = d.status
                   /\ effBuffer' = d.buffer
                   /\ effInvoked' = d.invoked
                   /\ effFailure' =
                         [w \in Values |->
                             IF w = v /\ failure # "none" THEN failure
                             ELSE IF /\ InSeq(d.invoked, w)
                                     /\ ~InSeq(effInvoked, w)
                                     /\ kinds[w] = "throws"
                                     THEN "threw" ELSE effFailure[w]]
          ELSE /\ effStatus' = [effStatus EXCEPT ![v] = "done"]
               /\ effFailure' = IF failure # "none"
                                   THEN [effFailure EXCEPT ![v] = failure] ELSE effFailure
               /\ UNCHANGED <<effBuffer, effInvoked>>
    /\ UNCHANGED <<effKind, effConcurrency, effArrived, effObserved, effBusyAt, effLifeVars>>

TaskComplete(v, kinds) == TaskEnd(v, kinds, "none")
TaskError(v, kinds)    == TaskEnd(v, kinds, "errored")

\* destroy() of the returned ref, called outside effectFn: destroy$.next()
\* and complete(), for rxActionEffect isDestroyed and actionSubject$.complete()
\* too, then subscription?.unsubscribe().  On a stopped Subject next() and
\* complete() do nothing, and so does unsubscribe() of a closed subscription.
destroy ==
    /\ effDestroyCalls < MaxDestroy
    /\ effDestroyCalls' = effDestroyCalls + 1
    /\ effSubscribed' = FALSE
    /\ effStatus' = TornDown(effStatus)
    /\ effBuffer' = <<>>
    /\ effArrivedAtDestroy' = IF effDestroyCalls = 0 THEN effArrived ELSE effArrivedAtDestroy
    /\ UNCHANGED <<effKind, effConcurrency, effArrived, effInvoked, effObserved, effBusyAt,
                   effFailure, effResub, effTerminal, effSourceErrors, effResubscribes,
                   effDestroyThrew, effArrivedAtError>>

\* The mutant: subscription.unsubscribe() without the optional chaining, and
\* no takeUntil(destroy$): a destroy() during the first, synchronous emission
\* finds subscription undefined.
destroyInsideNoGuard(kind, seed) ==
    LET v == effArrived + 1
    IN  /\ effSubscribed
        /\ effArrived < MaxValues
        /\ effDestroyCalls < MaxDestroy
        /\ seed => (effKind = "rxEffect" /\ effArrived = 0 /\ effResubscribes = 0)
        /\ getFlattenOperator(effConcurrency) \in {"switchMap", "mergeMap"}
              \/ Active(effStatus) = {}
        /\ effArrived' = v
        /\ effBusyAt' = [effBusyAt EXCEPT ![v] = Active(effStatus) # {}]
        /\ effInvoked' = Append(effInvoked, v)
        /\ effFailure' = IF kind = "throws"
                            THEN [effFailure EXCEPT ![v] = "threw"] ELSE effFailure
        /\ effDestroyCalls' = effDestroyCalls + 1
        /\ effArrivedAtDestroy' = IF effDestroyCalls = 0 THEN v ELSE effArrivedAtDestroy
        /\ effSubscribed' = seed
        /\ effDestroyThrew' = (effDestroyThrew \/ seed)
        /\ effStatus' =
              IF seed THEN Project(effStatus, v, kind)
              ELSE [TornDown(effStatus) EXCEPT
                       ![v] = IF kind = "observable" THEN "cancelled" ELSE "done"]
        /\ effBuffer' = <<>>
        /\ UNCHANGED <<effKind, effConcurrency, effObserved, effResub, effTerminal,
                       effSourceErrors, effResubscribes, effArrivedAtError>>

\* A source value for which effectFn is called, and effectFn calls destroy().
\* seed: the value is the one store.select replays while rxEffect is still
\* inside its first subscribe(); subscription is not assigned yet, takeUntil
\* ends the outer stream, and the observable effectFn returns is subscribed
\* all the same.  Otherwise the outer subscription is unsubscribed and what
\* effectFn returns is unsubscribed as soon as it is subscribed.
destroyInside(kind, seed) ==
    LET v == effArrived + 1
    IN  /\ effSubscribed
        /\ effArrived < MaxValues
        /\ effDestroyCalls < MaxDestroy
        /\ seed => (effKind = "rxEffect" /\ effArrived = 0 /\ effResubscribes = 0)
        /\ getFlattenOperator(effConcurrency) \in {"switchMap", "mergeMap"}
              \/ Active(effStatus) = {}
        /\ effArrived' = v
        /\ effBusyAt' = [effBusyAt EXCEPT ![v] = Active(effStatus) # {}]
        /\ effInvoked' = Append(effInvoked, v)
        /\ effFailure' = IF kind = "throws"
                            THEN [effFailure EXCEPT ![v] = "threw"] ELSE effFailure
        /\ effDestroyCalls' = effDestroyCalls + 1
        /\ effArrivedAtDestroy' = IF effDestroyCalls = 0 THEN v ELSE effArrivedAtDestroy
        /\ effSubscribed' = FALSE
        /\ effStatus' =
              IF seed THEN Project(effStatus, v, kind)
              ELSE [TornDown(effStatus) EXCEPT
                       ![v] = IF kind = "observable" THEN "cancelled" ELSE "done"]
        /\ effBuffer' = <<>>
        /\ UNCHANGED <<effKind, effConcurrency, effObserved, effResub, effTerminal,
                       effSourceErrors, effResubscribes, effDestroyThrew,
                       effArrivedAtError>>

\* rxEffect: the selector throws for the new state, and the select stream
\* ends with that error.  The error passes the flattening operator and
\* reaches the error handler.  again: the selector throws for the same
\* state when the new subscription is handed it (a selector is a function of
\* the state; one that fails only the first time gives again = FALSE, and
\* effectFn is then called with the replayed value).
sourceError(again, kind) ==
    LET v == effArrived + 1
        h == errorHandler(sourceReplays(effKind) /\ again)
    IN  /\ effKind = "rxEffect"
        /\ effSubscribed
        /\ effArrived < MaxValues
        /\ effArrived' = v
        /\ effBusyAt' = [effBusyAt EXCEPT ![v] = Active(effStatus) # {}]
        /\ effSourceErrors' = effSourceErrors + 1
        /\ effTerminal' = effTerminal + (IF h.resubscribes = 0 THEN 1 ELSE h.resubscribes)
        /\ effResubscribes' = effResubscribes + h.resubscribes
        /\ effSubscribed' = h.subscribed
        /\ effArrivedAtError' = IF effSourceErrors = 0 THEN v ELSE effArrivedAtError
        /\ effBuffer' = <<>>
        /\ IF h.subscribed
              THEN /\ effStatus' = Project(TornDown(effStatus), v, kind)
                   /\ effInvoked' = Append(effInvoked, v)
                   /\ effFailure' = IF kind = "throws"
                                       THEN [effFailure EXCEPT ![v] = "threw"]
                                       ELSE effFailure
              ELSE /\ effStatus' = [TornDown(effStatus) EXCEPT ![v] = "sourceError"]
                   /\ UNCHANGED <<effInvoked, effFailure>>
        /\ UNCHANGED <<effKind, effConcurrency, effObserved, effResub, effDestroyCalls,
                       effDestroyThrew, effArrivedAtDestroy>>

\* rxEffect(store, selector, effectFn, config) or
\* rxActionEffect(store, actionTypes, effectFn, config), before any value
InitEffect ==
    /\ effKind \in {"rxEffect", "rxActionEffect"}
    /\ effConcurrency \in Concurrencies \cup {Unset}
    /\ effResub \in BOOLEAN
    /\ effArrived = 0
    /\ effStatus = [v \in Values |-> "none"]
    /\ effBuffer = <<>>
    /\ effInvoked = <<>>
    /\ effObserved = <<>>
    /\ effBusyAt = [v \in Values |-> FALSE]
    /\ effFailure = [v \in Values |-> "none"]
    /\ effSubscribed = TRUE
    /\ effTerminal = 0
    /\ effSourceErrors = 0
    /\ effResubscribes = 0
    /\ effDestroyCalls = 0
    /\ effDestroyThrew = FALSE
    /\ effArrivedAtDestroy = -1
    /\ effArrivedAtError = -1

IdleEffect == InitEffect /\ effKind = "rxEffect" /\ effConcurrency = Unset /\ effResub

EffSelectEmits      == \E k \in InvokeKinds : SelectEmits(k)
EffMatchingDispatch == \E k \in InvokeKinds : MatchingDispatch(k)
EffTaskEmit         == \E v \in Values : TaskEmit(v)
EffTaskComplete     == \E v \in Values, kinds \in [Values -> InvokeKinds] : TaskComplete(v, kinds)
EffTaskError        == \E v \in Values, kinds \in [Values -> InvokeKinds] : TaskError(v, kinds)
EffDestroy          == destroy
EffDestroyInside    == \E k \in InvokeKinds, seed \in BOOLEAN : destroyInside(k, seed)
EffSourceError      == \E again \in BOOLEAN, k \in InvokeKinds : sourceError(again, k)

\* the other components stay as constructed while the effect runs
EffectFrame == UNCHANGED <<storeVars, replacedWith, entityVars, selectorVars, wrapVars, lazyVars, laterVars>>

\* an effect that is neither destroyed nor hit by an error of its source
NextEffect ==
    \/ EffSelectEmits /\ EffectFrame
    \/ EffMatchingDispatch /\ EffectFrame
    \/ EffTaskEmit /\ EffectFrame
    \/ EffTaskComplete /\ EffectFrame
    \/ EffTaskError /\ EffectFrame

\* the whole life of an effect
NextEffectLife ==
    \/ EffSelectEmits /\ EffectFrame
    \/ EffMatchingDispatch /\ EffectFrame
    \/ EffTaskEmit /\ EffectFrame
    \/ EffTaskComplete /\ EffectFrame
    \/ EffTaskError /\ EffectFrame
    \/ EffDestroy /\ EffectFrame
    \/ EffDestroyInside /\ EffectFrame
    \/ EffSourceError /\ EffectFrame


(***************************************************************************)
(* C9: with concurrency 'switch', or none configured, a value that arrives *)
(* while an earlier task is in flight cancels that task: at most one task  *)
(* is active, only the task of the latest value is active, and every       *)
(* emission that comes through is one of the task of the latest value.     *)
(***************************************************************************)
C9_SwitchCancelsEarlierTask ==
    effConcurrency \in {"switch", Unset} =>
        /\ Cardinality(Active(effStatus)) <= 1
        /\ \A v \in Values : (v < effArrived => effStatus[v] # "active")
        /\ \A i \in 1..Len(effObserved) : effObserved[i].task = effObserved[i].arrived

C9_Witness ==
    /\ effConcurrency \in {"switch", Unset}
    /\ \E v \in 1..(MaxValues - 1) :
          /\ effStatus[v] = "cancelled"
          /\ effBusyAt[v + 1]
          /\ effStatus[v + 1] = "active"
          /\ InSeq(effObserved, [task |-> v, arrived |-> v])
          /\ InSeq(effObserved, [task |-> v + 1, arrived |-> v + 1])

(***************************************************************************)
(* C10: with concurrency 'exhaust' effectFn is never called for a value    *)
(* that arrived while a task was in flight, and it is called for a value   *)
(* that arrived while none was.                                            *)
(***************************************************************************)
C10_ExhaustDropsWhileBusy ==
    effConcurrency = "exhaust" =>
        \A v \in Values :
            v <= effArrived =>
                /\ effBusyAt[v] => (~InSeq(effInvoked, v) /\ effStatus[v] = "dropped")
                /\ ~effBusyAt[v] => InSeq(effInvoked, v)

C10_Witness ==
    /\ effConcurrency = "exhaust"
    /\ effArrived = 3
    /\ effStatus[1] = "done"
    /\ effStatus[2] = "dropped"
    /\ effStatus[3] = "active"
    /\ effInvoked = <<1, 3>>

(***************************************************************************)
(* C11: with concurrency 'concat' no source value is dropped (each one has *)
(* been handed to effectFn or waits in the queue, in arrival order),       *)
(* effectFn is called for the values in arrival order, it is not called    *)
(* for a value before the task of every earlier value has completed, and   *)
(* at most one task is active.                                             *)
(***************************************************************************)
C11_ConcatRunsOneAtATimeInOrder ==
    effConcurrency = "concat" =>
        /\ \A v \in Values :
              v <= effArrived => (InSeq(effInvoked, v) \/ InSeq(effBuffer, v))
        /\ \A v \in Values :
              v <= effArrived => effStatus[v] \notin {"dropped", "cancelled", "none"}
        /\ \A i \in 1..Len(effInvoked) : effInvoked[i] = i
        /\ \A i \in 1..Len(effBuffer) : effBuffer[i] = Len(effInvoked) + i
        /\ \A v \in Values :
              InSeq(effInvoked, v) => \A w \in 1..(v - 1) : effStatus[w] = "done"
        /\ Cardinality(Active(effStatus)) <= 1

C11_Witness ==
    /\ effConcurrency = "concat"
    /\ effArrived = 3
    /\ effBusyAt[2]
    /\ effBusyAt[3]
    /\ effStatus[1] = "done"
    /\ effStatus[2] = "active"
    /\ effStatus[3] = "queued"
    /\ effInvoked = <<1, 2>>
    /\ effBuffer = <<3>>
    /\ InSeq(effObserved, [task |-> 1, arrived |-> 3])

(***************************************************************************)
(* C12: under every concurrency policy and both values of                  *)
(* resubscribeOnError, an effectFn that throws and an observable that      *)
(* errors are taken as a task that completed without a result: the error   *)
(* never reaches the error handler of the outer subscription (so neither   *)
(* the code that emitted the value nor the store), and as long as the      *)
(* effect is not destroyed and its source has not failed it stays          *)
(* subscribed, so that every later source value is handled as its policy   *)
(* says: effectFn is called, unless exhaust drops or concat queues the     *)
(* value behind a task in flight.                                          *)
(***************************************************************************)
C12_ActivationErrorIsolated ==
    /\ \A v \in Values : effFailure[v] # "none" => effStatus[v] = "done"
    /\ effSourceErrors = 0 => effTerminal = 0
    /\ (effSourceErrors = 0 /\ effDestroyCalls = 0) =>
          /\ effSubscribed
          /\ \A v \in Values :
                v <= effArrived =>
                   \/ InSeq(effInvoked, v)
                   \/ /\ getFlattenOperator(effConcurrency) = "exhaustMap"
                      /\ effBusyAt[v]
                      /\ effStatus[v] = "dropped"
                   \/ /\ getFlattenOperator(effConcurrency) = "concatMap"
                      /\ effBusyAt[v]
                      /\ InSeq(effBuffer, v)

C12_Witness ==
    /\ effConcurrency = "exhaust"
    /\ ~effResub
    /\ effFailure[1] = "threw"
    /\ effFailure[2] = "errored"
    /\ effInvoked = <<1, 2, 3>>
    /\ effStatus[3] = "active"
    /\ effSubscribed

(***************************************************************************)
(* C13: no destroy() call throws, whether it is the first or a repeated    *)
(* one, made from inside effectFn or while a task is in flight; and once   *)
(* destroy() has been called, effectFn is called for no state change and   *)
(* no matching dispatch that comes later.                                  *)
(***************************************************************************)
C13_DestroyIdempotentAndFinal ==
    /\ ~effDestroyThrew
    /\ effDestroyCalls > 0 =>
          /\ ~effSubscribed
          /\ \A v \in Values :
                (effArrivedAtDestroy < v /\ v <= effArrived) =>
                    (effStatus[v] = "unseen" /\ ~InSeq(effInvoked, v))

C13_Witness ==
    /\ effDestroyCalls = 2
    /\ effArrivedAtDestroy = 2
    /\ effBusyAt[2]
    /\ effInvoked = <<1, 2>>
    /\ effStatus[1] = "cancelled"
    /\ effStatus[3] = "unseen"

(***************************************************************************)
(* C14: when the select stream of an rxEffect has ended with an error,     *)
(* with resubscribeOnError = false effectFn is called for no later state   *)
(* change; with resubscribeOnError = true the error handler has subscribed *)
(* again once for each such error and the effect is subscribed again (as   *)
(* long as it is not destroyed), so that later state changes reach         *)
(* effectFn.                                                               *)
(***************************************************************************)
C14_SourceErrorResubscribes ==
    effSourceErrors > 0 =>
        /\ ~effResub =>
              /\ ~effSubscribed
              /\ \A v \in Values : v >= effArrivedAtError => ~InSeq(effInvoked, v)
        /\ effResub =>
              /\ effResubscribes = effSourceErrors
              /\ effDestroyCalls = 0 => effSubscribed

(***************************************************************************)
(* Wrappers around store.dispatch                                          *)
(***************************************************************************)
MaxWrapCalls == 2
MaxEnable    == 2

\* two rxActionEffect instances, a StoreActionTracker, the wrapper
\* createSpyStore installs, and a wrapper the application installs itself
EffectLayers == {"fx1", "fx2"}
Layers       == EffectLayers \cup {"tracker", "spy", "user"}
\* NgRedux.prototype.dispatch bound to the store
BaseDispatch == "store"
NotInstalled == "none"
RangeError   == "RangeError"
WrapTypes    == {"A", "B"}

\* const actionSet = new Set(actionTypes)
actionSet(l) == IF l = "fx1" THEN {"A"} ELSE {"A", "B"}

Count(log, x) == Cardinality({i \in 1..Len(log) : log[i] = x})

Installed(l) == previousDispatch[l] # NotInstalled

\* the layer's own logic is switched on
Enabled(l) ==
    IF l \in EffectLayers THEN ~isDestroyed[l]
    ELSE IF l = "tracker" THEN isEnabled
    ELSE TRUE

\* rxActionEffect: wrappedDispatch. The previous dispatch runs first; the
\* action goes to actionSubject$ if the effect lives and listens for its type.
wrappedDispatch(l, type, inner) ==
    IF Count(inner, RangeError) > 0 THEN inner
    ELSE IF ~isDestroyed[l] /\ type \in actionSet(l) THEN inner \o <<l>>
    ELSE inner

\* StoreActionTracker.enable: the function put in store.dispatch
trackerDispatch(type, inner) ==
    IF ~isEnabled THEN inner ELSE <<"tracker">> \o inner

\* createSpyStore: actions.push(action); return originalDispatch(action)
spyDispatch(type, inner) == <<"spy">> \o inner

\* a wrapper of the application: records the action, calls the dispatch it captured
userDispatch(type, inner) == <<"user">> \o inner

\* store.dispatch(action) with store.dispatch = target: what runs, in order.
\* A chain longer than the number of layers runs in a circle until the call
\* stack is used up.
RECURSIVE CallDispatch(_, _, _)
CallDispatch(target, type, hops) ==
    IF target = BaseDispatch THEN <<BaseDispatch>>
    ELSE IF hops > Cardinality(Layers) THEN <<RangeError>>
    ELSE LET inner == CallDispatch(previousDispatch[target], type, hops + 1)
         IN  IF target \in EffectLayers THEN wrappedDispatch(target, type, inner)
             ELSE IF target = "tracker" THEN trackerDispatch(type, inner)
             ELSE IF target = "spy" THEN spyDispatch(type, inner)
             ELSE userDispatch(type, inner)

\* const previousDispatch = store.dispatch.bind(store); store.dispatch = wrapper
install(l) ==
    /\ previousDispatch' = [previousDispatch EXCEPT ![l] = storeDispatch]
    /\ storeDispatch' = l

rxActionEffectInstall(l) ==
    /\ l \in EffectLayers
    /\ ~Installed(l)
    /\ install(l)
    /\ UNCHANGED <<isDestroyed, isEnabled, trackerEnables, dispatchLog, dispatchedType,
                   activeAtCall, nWrapCalls>>

\* cleanup() with the dispatch the effect captured put back into the store
cleanupRestoringDispatch(l) ==
    /\ l \in EffectLayers
    /\ Installed(l)
    /\ isDestroyed' = [isDestroyed EXCEPT ![l] = TRUE]
    /\ storeDispatch' = previousDispatch[l]
    /\ UNCHANGED <<previousDispatch, isEnabled, trackerEnables, dispatchLog,
                   dispatchedType, activeAtCall, nWrapCalls>>

\* rxActionEffect: cleanup. The wrapper stays in the chain.
cleanup(l) ==
    /\ l \in EffectLayers
    /\ Installed(l)
    /\ isDestroyed' = [isDestroyed EXCEPT ![l] = TRUE]
    /\ UNCHANGED <<storeDispatch, previousDispatch, isEnabled, trackerEnables,
                   dispatchLog, dispatchedType, activeAtCall, nWrapCalls>>

\* StoreActionTracker.enable
enable ==
    /\ ~isEnabled
    /\ trackerEnables < MaxEnable
    /\ isEnabled' = TRUE
    /\ install("tracker")
    /\ trackerEnables' = trackerEnables + 1
    /\ UNCHANGED <<isDestroyed, dispatchLog, dispatchedType, activeAtCall, nWrapCalls>>

\* StoreActionTracker.disable
disable ==
    /\ isEnabled' = FALSE
    /\ isEnabled
    /\ UNCHANGED <<storeDispatch, previousDispatch, isDestroyed, trackerEnables,
                   dispatchLog, dispatchedType, activeAtCall, nWrapCalls>>

\* createSpyStore builds the store it wraps: its wrapper is the innermost one
createSpyStore ==
    /\ \A l \in Layers : ~Installed(l)
    /\ storeDispatch = BaseDispatch
    /\ install("spy")
    /\ UNCHANGED <<isDestroyed, isEnabled, trackerEnables, dispatchLog, dispatchedType,
                   activeAtCall, nWrapCalls>>

userWrap ==
    /\ ~Installed("user")
    /\ install("user")
    /\ UNCHANGED <<isDestroyed, isEnabled, trackerEnables, dispatchLog, dispatchedType,
                   activeAtCall, nWrapCalls>>

\* store.dispatch({ type })
wrapDispatch(type) ==
    /\ nWrapCalls < MaxWrapCalls
    /\ nWrapCalls' = nWrapCalls + 1
    /\ dispatchLog' = CallDispatch(storeDispatch, type, 0)
    /\ dispatchedType' = type
    /\ activeAtCall' = {l \in Layers : Installed(l) /\ Enabled(l)}
    /\ UNCHANGED <<storeDispatch, previousDispatch, isDestroyed, isEnabled, trackerEnables>>

InitWrap ==
    /\ storeDispatch = BaseDispatch
    /\ previousDispatch = [l \in Layers |-> NotInstalled]
    /\ isDestroyed = [l \in EffectLayers |-> FALSE]
    /\ isEnabled = FALSE
    /\ trackerEnables = 0
    /\ dispatchLog = <<>>
    /\ dispatchedType = "none"
    /\ activeAtCall = {}
    /\ nWrapCalls = 0

IdleWrap == InitWrap

WrapEffectInstall == \E l \in EffectLayers : rxActionEffectInstall(l)
WrapEffectCleanup == \E l \in EffectLayers : cleanup(l)
WrapDispatch      == \E t \in WrapTypes : wrapDispatch(t)

WrapFrame == UNCHANGED <<storeVars, replacedWith, entityVars, selectorVars, effectVars, lazyVars, laterVars>>

NextWrap ==
    \/ WrapEffectInstall /\ WrapFrame
    \/ WrapEffectCleanup /\ WrapFrame
    \/ enable /\ WrapFrame
    \/ disable /\ WrapFrame
    \/ createSpyStore /\ WrapFrame
    \/ userWrap /\ WrapFrame
    \/ WrapDispatch /\ WrapFrame

\* what a layer watches: an effect the types of its actionSet, the others
\* every action
Watches(l, type) == l \in EffectLayers => type \in actionSet(l)

\* C15: with every layer installed at most once, in any order, and any of
\* them destroyed or disabled since: a store.dispatch call reaches the
\* underlying dispatch exactly once, every layer active at the call observes
\* the action exactly once (an effect: an action of a type it listens for),
\* and a layer that is destroyed, disabled or not installed observes nothing.
C15_EachLayerObservesOnce ==
    (nWrapCalls > 0 /\ trackerEnables <= 1) =>
        /\ Count(dispatchLog, BaseDispatch) = 1
        /\ Count(dispatchLog, RangeError) = 0
        /\ \A l \in Layers :
              Count(dispatchLog, l) =
                  IF l \in activeAtCall /\ Watches(l, dispatchedType) THEN 1 ELSE 0

\* fx1, the tracker and the user wrapper were installed before fx2; fx1 and
\* the tracker were switched off; the next dispatch reaches the user wrapper,
\* the store and fx2
C15_Witness ==
    /\ nWrapCalls > 0
    /\ trackerEnables = 1
    /\ previousDispatch["fx1"] = BaseDispatch
    /\ previousDispatch["tracker"] = "fx1"
    /\ previousDispatch["user"] = "tracker"
    /\ previousDispatch["fx2"] = "user"
    /\ storeDispatch = "fx2"
    /\ activeAtCall = {"user", "fx2"}
    /\ dispatchLog = <<"user", BaseDispatch, "fx2">>


\* C20: replaceReducer(next) on a configured store leaves getState() as it
\* was, calls no listener, hands no value to a select subscriber and runs no
\* reducer; the dispatches after it compute the new state by one run of
\* next on the state before them.
C20_ReplaceReducerSwapsOnly ==
    /\ (lastCall.op = "replaceReducer" /\ lastCall.pre.store # NoStore) =>
          /\ getState = lastCall.pre.state
          /\ rsRootReducer = lastCall.arg
          /\ Snapshot = [lastCall.pre EXCEPT !.reducer = lastCall.arg]
          /\ storeSubject = lastCall.pre.state
          /\ \A x \in selectSubs : selectSeen[x] = lastCall.pre.state
          /\ reducerRuns <= nDispatch
          /\ \A l \in ListenerIds : heard[l] <= nDispatch
    /\ (lastCall.op = "dispatch" /\ replacedWith # NoReducer) =>
          /\ lastCall.ran = 1
          /\ reducerRuns <= nDispatch
          /\ ~lastCall.threw =>
                getState = Reduce(replacedWith, lastCall.pre.state, lastCall.arg).state

\* configured with R1, replaced by R2: the INC dispatched afterwards adds two
C20_Witness ==
    /\ lastCall.op = "dispatch"
    /\ lastCall.arg = "INC"
    /\ firstReducer = "R1"
    /\ replacedWith = "R2"
    /\ getState = lastCall.pre.state + 2
    /\ reducerRuns > 1


(***************************************************************************)
(* Lazy reducer registry                                                   *)
(***************************************************************************)
MaxLazyOps   == 4
MaxListeners == 2
MaxLazyVal   == 2

\* a property that is missing or holds undefined
Undef      == -1
\* what reading an inherited property of a plain object gives: a function
\* of Object.prototype
ProtoValue == -2

\* slice keys; "toString" stands for the names Object.prototype defines
LazyKeys      == {"a", "toString"}
PrototypeKeys == {"toString"}
ObjKeys       == {"counter"} \cup LazyKeys
LazyTypes     == {"INC", "SET"}
ReduxInit     == "@@redux/INIT"

\* values: undefined, or an object given by its own properties
Undefined   == [t |-> "undefined"]
EmptyProps  == [k \in ObjKeys |-> Undef]
Object(o)   == [t |-> "object", o |-> o]
\* the own properties of s, none for undefined
Props(s)    == IF s.t = "object" THEN s.o ELSE EmptyProps
\* s?.[k]
prop(s, k) ==
    IF Props(s)[k] # Undef THEN Props(s)[k]
    ELSE IF s.t = "object" /\ k \in PrototypeKeys THEN ProtoValue
    ELSE Undef

\* slice reducers: r1 = (s = 1, a) => a.type === 'SET' ? 2 : s; r2 = (s = 0) => s
SliceReducers == {"r1", "r2"}
Absent        == "absent"
sliceReduce(r, v, type) ==
    IF r = "r1" THEN (IF type = "SET" THEN 2 ELSE IF v = Undef THEN 1 ELSE v)
    ELSE (IF v = Undef THEN 0 ELSE v)

\* (s = 0, a) => a.type === 'INC' ? (s + 1) % 3 : s
counterReduce(v, type) ==
    LET c == IF v = Undef THEN 0 ELSE v
    IN  IF type = "INC" THEN (c + 1) % (MaxLazyVal + 1) ELSE c

\* base reducers: "spread" = (state = {}, a) => ({ ...state, counter: counter(state.counter, a) });
\* "combine" = combineReducers({ counter })
BaseReducers == {"spread", "combine"}
\* "switch" = (state = {}, a) => a.type === 'INC'
\*                ? { ...state, counter: counter(state.counter, a) } : state
SwitchReducer == "switch"
NoBase       == "null"
baseReduce(b, state, type) ==
    IF b = SwitchReducer /\ type # "INC"
    THEN Object(Props(state))
    ELSE IF b \in {"spread", SwitchReducer}
    THEN Object([Props(state) EXCEPT !["counter"] = counterReduce(@, type)])
    ELSE Object([k \in ObjKeys |->
                    IF k = "counter" THEN counterReduce(Props(state)[k], type) ELSE Undef])

OwnKeys(map) == {k \in LazyKeys : map[k] # Absent}

\* redux combineReducers(reducers) applied to (state, action)
combineSlices(reducers, state, type) ==
    Object([k \in ObjKeys |->
               IF k \in OwnKeys(reducers)
               THEN sliceReduce(reducers[k], prop(state, k), type)
               ELSE Undef])

\* the reducer getCombinedReducer builds from a base and slices, with the
\* slices' results written over by the base's result
mergedBaseWins(base, reducers, state, type) ==
    LET baseState == baseReduce(base, state, type)
        acc == Object([k \in ObjKeys |->
                          IF k \in OwnKeys(reducers) THEN prop(baseState, k) ELSE Undef])
        dynamicState == combineSlices(reducers, acc, type)
    IN  Object([k \in ObjKeys |->
                   IF Props(baseState)[k] # Undef THEN Props(baseState)[k]
                   ELSE Props(dynamicState)[k]])

\* the reducer getCombinedReducer builds from a base and slices:
\* { ...baseState, ...dynamicState }
merged(base, reducers, state, type) ==
    LET baseState == baseReduce(base, state, type)
        acc == Object([k \in ObjKeys |->
                          IF k \in OwnKeys(reducers) THEN prop(baseState, k) ELSE Undef])
        dynamicState == combineSlices(reducers, acc, type)
    IN  Object([k \in ObjKeys |->
                   IF Props(dynamicState)[k] # Undef THEN Props(dynamicState)[k]
                   ELSE Props(baseState)[k]])

\* ReducerRegistry.getCombinedReducer for the given base and reducerMap:
\* the function it returns, with what the function closes over
combinedReducerOf(base, map) ==
    IF OwnKeys(map) = {} /\ base # NoBase THEN [kind |-> "base", base |-> base, reducers |-> map]
    ELSE IF base # NoBase THEN [kind |-> "merged", base |-> base, reducers |-> map]
    ELSE IF OwnKeys(map) # {} THEN [kind |-> "combined", base |-> base, reducers |-> map]
    ELSE [kind |-> "identity", base |-> base, reducers |-> map]

getCombinedReducer == combinedReducerOf(baseReducer, reducerMap)

\* calling a reducer getCombinedReducer returned
lazyReduce(f, state, type) ==
    IF f.kind = "base" THEN baseReduce(f.base, state, type)
    ELSE IF f.kind = "merged" THEN merged(f.base, f.reducers, state, type)
    ELSE IF f.kind = "combined" THEN combineSlices(f.reducers, state, type)
    ELSE IF state.t = "undefined" THEN Object(EmptyProps) ELSE state

NoRoot == [kind |-> "none", base |-> NoBase, reducers |-> [k \in LazyKeys |-> Absent]]

\* "auto" is the listener configureStoreWithLazyReducers adds
UserListeners == {"l1", "l2"}
AutoListener  == "auto"

\* ReducerService.replaceReducer(next): the root reducer the store runs from
\* now on
lazyReplaceReducer(next) == next

\* the listener of configureStoreWithLazyReducers, without the replacement
autoListenerStale(map) == lazyRoot

\* the listener of configureStoreWithLazyReducers:
\* store.replaceReducer(registry.getCombinedReducer())
autoListener(map) == lazyReplaceReducer(combinedReducerOf(baseReducer, map))

\* notifyListeners: the listeners run in array order; the root reducer the
\* store holds afterwards
notifyListeners(map) ==
    [calls |-> listeners,
     root  |-> IF InSeq(listeners, AutoListener) THEN autoListener(map) ELSE lazyRoot]

Event(e, key, f, type) == [e |-> e, key |-> key, f |-> f, type |-> type]

\* what the listeners do that loadReducer's log shows
ListenerEvents(n) ==
    IF InSeq(n.calls, AutoListener) THEN <<Event("replaceReducer", "", n.root, "")>> ELSE <<>>

Last(op, key, r) ==
    [op |-> op, key |-> key, r |-> r, keysBefore |-> OwnKeys(reducerMap),
     listenersBefore |-> listeners]

NoDispatch == [type |-> "none", before |-> Undefined, after |-> Undefined,
               base |-> NoBase, reducers |-> [k \in LazyKeys |-> Absent]]

NoApplied == [type |-> "none", in |-> Undefined, out |-> Undefined,
              base |-> NoBase, reducers |-> [k \in LazyKeys |-> Absent]]

LazyStep(op, key, r) ==
    /\ nLazyOps < MaxLazyOps
    /\ nLazyOps' = nLazyOps + 1
    /\ lazyLast' = Last(op, key, r)

\* ReducerRegistry.register
register(key, r) ==
    /\ LazyStep("register", key, r)
    /\ reducerMap' = [reducerMap EXCEPT ![key] = r]
    /\ listenerCalls' = notifyListeners(reducerMap').calls
    /\ lazyRoot' = notifyListeners(reducerMap').root
    /\ UNCHANGED <<baseReducer, listeners, unsubscribed, lazyMode, lazyState, lazyLog,
                   lazyDispatched, lazyApplied, unloaders, keysAtConfigure>>

\* if (this.reducerMap[key])
truthy(map, key) == map[key] # Absent \/ key \in PrototypeKeys

\* ReducerRegistry.unregister
unregister(key) ==
    /\ LazyStep("unregister", key, Absent)
    /\ IF truthy(reducerMap, key)
       THEN /\ reducerMap' = [reducerMap EXCEPT ![key] = Absent]
            /\ listenerCalls' = notifyListeners(reducerMap').calls
            /\ lazyRoot' = notifyListeners(reducerMap').root
       ELSE /\ listenerCalls' = <<>>
            /\ UNCHANGED <<reducerMap, lazyRoot>>
    /\ UNCHANGED <<baseReducer, listeners, unsubscribed, lazyMode, lazyState, lazyLog,
                   lazyDispatched, lazyApplied, unloaders, keysAtConfigure>>

\* ReducerRegistry.onChange
onChange(l) ==
    /\ Len(SelectSeq(listeners, LAMBDA x : x \in UserListeners)) < MaxListeners
    /\ LazyStep("onChange", "", Absent)
    /\ listeners' = Append(listeners, l)
    /\ unsubscribed' = unsubscribed \ {l}
    /\ listenerCalls' = <<>>
    /\ UNCHANGED <<reducerMap, baseReducer, lazyMode, lazyRoot, lazyState, lazyLog,
                   lazyDispatched, lazyApplied, unloaders, keysAtConfigure>>

\* the function onChange(l) returned
unsubscribe(l) ==
    /\ InSeq(listeners, l) \/ l \in unsubscribed
    /\ LazyStep("unsubscribe", "", Absent)
    /\ listeners' = SelectSeq(listeners, LAMBDA x : x # l)
    /\ unsubscribed' = unsubscribed \cup {l}
    /\ listenerCalls' = <<>>
    /\ UNCHANGED <<reducerMap, baseReducer, lazyMode, lazyRoot, lazyState, lazyLog,
                   lazyDispatched, lazyApplied, unloaders, keysAtConfigure>>

\* ReducerRegistry.setBaseReducer, called before the store is configured
setBaseReducer(b) ==
    /\ lazyMode = "none"
    /\ LazyStep("setBaseReducer", "", Absent)
    /\ baseReducer' = b
    /\ listenerCalls' = <<>>
    /\ UNCHANGED <<reducerMap, listeners, unsubscribed, lazyMode, lazyRoot, lazyState,
                   lazyLog, lazyDispatched, lazyApplied, unloaders, keysAtConfigure>>

\* registry.getCombinedReducer()(state, { type })
applyCombined(state, type) ==
    /\ LazyStep("apply", "", Absent)
    /\ lazyApplied' = [type |-> type, in |-> state,
                       out |-> lazyReduce(getCombinedReducer, state, type),
                       base |-> baseReducer, reducers |-> reducerMap]
    /\ listenerCalls' = <<>>
    /\ UNCHANGED <<reducerMap, baseReducer, listeners, unsubscribed, lazyMode, lazyRoot,
                   lazyState, lazyLog, lazyDispatched, unloaders, keysAtConfigure>>

\* the state the store is configured with
InitialState == Object([EmptyProps EXCEPT !["counter"] = 0])

\* store.configureStore(b, InitialState): createStore runs the reducer once
plainConfigure(b) ==
    /\ lazyMode = "none"
    /\ LazyStep("configureStore", "", Absent)
    /\ lazyMode' = "plain"
    /\ keysAtConfigure' = OwnKeys(reducerMap)
    /\ lazyRoot' = [kind |-> "base", base |-> b, reducers |-> [k \in LazyKeys |-> Absent]]
    /\ lazyState' = lazyReduce(lazyRoot', InitialState, ReduxInit)
    /\ listenerCalls' = <<>>
    /\ UNCHANGED <<reducerMap, baseReducer, listeners, unsubscribed, lazyLog,
                   lazyDispatched, lazyApplied, unloaders>>

\* configureStoreWithLazyReducers(store, b, InitialState)
configureStoreWithLazyReducers(b) ==
    /\ lazyMode = "none"
    /\ LazyStep("configureStoreWithLazyReducers", "", Absent)
    /\ baseReducer' = b
    /\ lazyMode' = "lazy"
    /\ keysAtConfigure' = OwnKeys(reducerMap)
    /\ lazyRoot' = [kind |-> "base", base |-> b, reducers |-> [k \in LazyKeys |-> Absent]]
    /\ lazyState' = lazyReduce(lazyRoot', InitialState, ReduxInit)
    /\ listeners' = Append(listeners, AutoListener)
    /\ listenerCalls' = <<>>
    /\ UNCHANGED <<reducerMap, unsubscribed, lazyLog, lazyDispatched, lazyApplied,
                   unloaders>>

\* the type of the action loadReducer dispatches
lazyInitType(key) == "@@LAZY_REDUCER/INIT/" \o key

Dispatched(root, type, map) ==
    [type |-> type, before |-> lazyState, after |-> lazyReduce(root, lazyState, type),
     base |-> baseReducer, reducers |-> map]

\* loadReducer(key, r, store) on a configured store
loadReducer(key, r) ==
    /\ lazyMode # "none"
    /\ LazyStep("loadReducer", key, r)
    /\ reducerMap' = [reducerMap EXCEPT ![key] = r]
    /\ listenerCalls' = notifyListeners(reducerMap').calls
    /\ lazyRoot' = lazyReplaceReducer(combinedReducerOf(baseReducer, reducerMap'))
    /\ lazyState' = lazyReduce(lazyRoot', lazyState, lazyInitType(key))
    /\ lazyDispatched' = Dispatched(lazyRoot', lazyInitType(key), reducerMap')
    /\ lazyLog' = <<Event("register", key, NoRoot, "")>>
                    \o ListenerEvents(notifyListeners(reducerMap'))
                    \o <<Event("replaceReducer", "", lazyRoot', ""),
                         Event("dispatch", "", NoRoot, lazyInitType(key))>>
    /\ unloaders' = unloaders \cup {key}
    /\ UNCHANGED <<baseReducer, listeners, unsubscribed, lazyMode, lazyApplied,
                   keysAtConfigure>>

\* the function loadReducer(key, ...) returned
unload(key) ==
    /\ key \in unloaders
    /\ LazyStep("unload", key, Absent)
    /\ IF truthy(reducerMap, key)
       THEN /\ reducerMap' = [reducerMap EXCEPT ![key] = Absent]
            /\ listenerCalls' = notifyListeners(reducerMap').calls
       ELSE /\ listenerCalls' = <<>>
            /\ UNCHANGED reducerMap
    /\ lazyRoot' = lazyReplaceReducer(combinedReducerOf(baseReducer, reducerMap'))
    /\ UNCHANGED <<baseReducer, listeners, unsubscribed, lazyMode, lazyState, lazyLog,
                   lazyDispatched, lazyApplied, unloaders, keysAtConfigure>>

\* store.dispatch({ type }) on a configured store
lazyDispatch(type) ==
    /\ lazyMode # "none"
    /\ LazyStep("dispatch", "", Absent)
    /\ lazyState' = lazyReduce(lazyRoot, lazyState, type)
    /\ lazyDispatched' = Dispatched(lazyRoot, type, reducerMap)
    /\ listenerCalls' = <<>>
    /\ UNCHANGED <<reducerMap, baseReducer, listeners, unsubscribed, lazyMode, lazyRoot,
                   lazyLog, lazyApplied, unloaders, keysAtConfigure>>

InitLazy ==
    /\ reducerMap = [k \in LazyKeys |-> Absent]
    /\ baseReducer = NoBase
    /\ listeners = <<>>
    /\ unsubscribed = {}
    /\ listenerCalls = <<>>
    /\ lazyLast = [op |-> "none", key |-> "", r |-> Absent, keysBefore |-> {},
                   listenersBefore |-> <<>>]
    /\ lazyMode = "none"
    /\ lazyRoot = NoRoot
    /\ lazyState = Undefined
    /\ lazyLog = <<>>
    /\ lazyDispatched = NoDispatch
    /\ lazyApplied = NoApplied
    /\ unloaders = {}
    /\ keysAtConfigure = {}
    /\ nLazyOps = 0

IdleLazy == InitLazy

\* the states getCombinedReducer()'s result is called with
InputStates == {Undefined} \cup {Object(o) : o \in [ObjKeys -> {Undef, 1}]}

LazyRegister       == \E k \in LazyKeys, r \in SliceReducers : register(k, r)
LazyUnregister     == \E k \in LazyKeys : unregister(k)
LazyOnChange       == \E l \in UserListeners : onChange(l)
LazyUnsubscribe    == \E l \in UserListeners : unsubscribe(l)
LazySetBaseReducer == \E b \in BaseReducers : setBaseReducer(b)
LazyApply          == \E s \in InputStates, t \in LazyTypes : applyCombined(s, t)
LazyPlainConfigure == \E b \in BaseReducers : plainConfigure(b)
LazyConfigure      == \E b \in BaseReducers : configureStoreWithLazyReducers(b)
LazyLoadReducer    == \E k \in LazyKeys, r \in SliceReducers : loadReducer(k, r)
LazyUnload         == \E k \in LazyKeys : unload(k)
LazyDispatch       == \E t \in LazyTypes : lazyDispatch(t)

LazyFrame == UNCHANGED <<storeVars, replacedWith, entityVars, selectorVars, effectVars, wrapVars, laterVars>>

NextLazy ==
    \/ LazyRegister /\ LazyFrame
    \/ LazyUnregister /\ LazyFrame
    \/ LazyOnChange /\ LazyFrame
    \/ LazyUnsubscribe /\ LazyFrame
    \/ LazySetBaseReducer /\ LazyFrame
    \/ LazyApply /\ LazyFrame
    \/ LazyPlainConfigure /\ LazyFrame
    \/ LazyConfigure /\ LazyFrame
    \/ LazyLoadReducer /\ LazyFrame
    \/ LazyUnload /\ LazyFrame
    \/ LazyDispatch /\ LazyFrame


\* C16: register(key, r) sets the reducer of key to r and calls every listener
\* registered at the call exactly once, in registration order; unregister of
\* a registered key removes it and notifies in the same way; unregister of a
\* key that is not registered leaves the registered keys as they were and
\* calls no listener; a listener whose unsubscribe function was called before
\* the change is not called.
C16_RegistryNotifiesListeners ==
    /\ lazyLast.op = "register" =>
          /\ reducerMap[lazyLast.key] = lazyLast.r
          /\ listenerCalls = lazyLast.listenersBefore
    /\ (lazyLast.op = "unregister" /\ lazyLast.key \in lazyLast.keysBefore) =>
          /\ OwnKeys(reducerMap) = lazyLast.keysBefore \ {lazyLast.key}
          /\ listenerCalls = lazyLast.listenersBefore
    /\ (lazyLast.op = "unregister" /\ lazyLast.key \notin lazyLast.keysBefore) =>
          /\ OwnKeys(reducerMap) = lazyLast.keysBefore
          /\ listenerCalls = <<>>
    /\ lazyLast.op \in {"register", "unregister"} =>
          \A i \in 1..Len(listenerCalls) : listenerCalls[i] \notin unsubscribed

\* the reducer getCombinedReducer() returned was called with a state and an action
WasApplied == lazyApplied.type # "none"

\* C17: getCombinedReducer() returns: with a base reducer B and no slice, a
\* reducer that behaves as B; with neither, a reducer that returns the state
\* it is given (an empty object when it is given none); with slices only, a
\* reducer whose result holds for each registered key the output of that
\* key's slice reducer; with B and slices, a reducer whose result keeps every
\* key of B's result that is not a slice key and holds for each registered
\* key the output of that key's slice reducer.
C17_CombinedReducerCases ==
    WasApplied =>
        LET a    == lazyApplied
            regs == OwnKeys(a.reducers)
            bs   == baseReduce(a.base, a.in, a.type)
        IN  /\ (a.base # NoBase /\ regs = {}) => a.out = bs
            /\ (a.base = NoBase /\ regs = {}) =>
                  a.out = IF a.in = Undefined THEN Object(EmptyProps) ELSE a.in
            /\ (a.base = NoBase /\ regs # {}) =>
                  \A k \in regs :
                      Props(a.out)[k] = sliceReduce(a.reducers[k], prop(a.in, k), a.type)
            /\ (a.base # NoBase /\ regs # {}) =>
                  /\ \A k \in ObjKeys \ regs : Props(a.out)[k] = Props(bs)[k]
                  /\ \A k \in regs :
                        Props(a.out)[k] = sliceReduce(a.reducers[k], prop(bs, k), a.type)

\* base "spread" and slice r1 under "a": { counter: 1, toString: 1 } with SET
\* keeps counter and toString and gains a: 2
C17_Witness ==
    /\ WasApplied
    /\ lazyApplied.base = "spread"
    /\ lazyApplied.reducers["a"] = "r1"
    /\ lazyApplied.reducers["toString"] = Absent
    /\ lazyApplied.type = "SET"
    /\ lazyApplied.in = Object([EmptyProps EXCEPT !["counter"] = 1, !["toString"] = 1])
    /\ lazyApplied.out = Object([EmptyProps EXCEPT !["counter"] = 1, !["toString"] = 1,
                                                   !["a"] = 2])

\* C18: loadReducer(key, r, store) registers r under key, then installs the
\* combined reducer computed after that registration, then dispatches exactly
\* one action, of type "LAZY_REDUCER_INIT/<key>"; the unload function it
\* returned unregisters key and installs the reducer recombined without it.
C18_LoadReducerOrder ==
    /\ lazyLast.op = "loadReducer" =>
          LET n == Len(lazyLog)
          IN  /\ n >= 3
              /\ lazyLog[1].e = "register" /\ lazyLog[1].key = lazyLast.key
              /\ reducerMap[lazyLast.key] = lazyLast.r
              /\ lazyLog[n - 1].e = "replaceReducer"
              /\ lazyLog[n - 1].f = getCombinedReducer
              /\ lazyRoot = getCombinedReducer
              /\ \A i \in 1..n : lazyLog[i].e = "dispatch" <=> i = n
              /\ lazyLog[n].type = "LAZY_REDUCER_INIT/" \o lazyLast.key
    /\ lazyLast.op = "unload" =>
          /\ lazyLast.key \notin OwnKeys(reducerMap)
          /\ lazyRoot = getCombinedReducer

MaxSwapOps == 5
\* the counter of a container stops here
MaxSwapState == 3

\* the redux stores handed to provideStore and replaceStore
Containers == {"A", "B"}
SwapTypes == {"INC", "NOP"}
\* the listeners passed to subscribe(); Reacting is
\*   () => { if (ngRedux.getState() === Trigger) ngRedux.dispatch({type: 'INC'}) }
SwapListeners == {"L1", "L2"}
Reacting == {"L1"}
Trigger == 1
\* the subscribers of select(): "byRef" passes no comparator, "byCmp" passes
\*   (a, b) => (a > 0) === (b > 0)
SwapSelectIds == {"byRef", "byCmp"}

\* the counter reducer of the containers
swReduce(s, type) == IF type = "INC" THEN s + 1 ELSE s

\* the comparator of a select subscriber; reference equality without one
comparator(x, a, b) == IF x = "byCmp" THEN (a > 0) = (b > 0) ELSE a = b

LastOf(seq) == seq[Len(seq)]

\* The mutant: the comparator the caller passed is not used.
selectDistinctByRef(x, em, v) ==
    IF em # <<>> /\ LastOf(em) = v THEN em ELSE Append(em, v)

\* select(selector, comparator): the value is handed on unless the
\* comparator calls it equal to the value handed on last
selectDistinct(x, em, v) ==
    IF em # <<>> /\ comparator(x, LastOf(em), v) THEN em ELSE Append(em, v)

\* _store$.next(v): every select subscriber is offered v
subjectNext(subs, acc, v) ==
    [acc EXCEPT !.subj = v,
                !.em = [x \in SwapSelectIds |->
                           IF x \in subs THEN selectDistinct(x, acc.em[x], v)
                           ELSE acc.em[x]]]

SwapEvent(k, d, who, saw) == [k |-> k, d |-> d, who |-> who, saw |-> saw]

\* The run of one call, threaded through the listeners: st the counters of
\* the containers, ev what happened in order, n the number of the next
\* dispatch, subj and em the subject and what the select subscribers got.
RunOf(st, subj, em) == [st |-> st, ev |-> <<>>, n |-> 1, subj |-> subj, em |-> em]

RECURSIVE reduxDispatch(_, _, _)
RECURSIVE callListeners(_, _, _, _)

\* the listener setStore(store) subscribes: () => this._store$.next(store.getState())
internalListener(c, d, acc) ==
    subjectNext(swSelects,
                [acc EXCEPT !.ev = Append(@, SwapEvent("notify", d, Internal, acc.st[c]))],
                acc.st[c])

\* a listener passed to subscribe(): it reads ngRedux.getState(); a reacting
\* one dispatches through ngRedux when it reads Trigger
userListener(l, d, acc) ==
    LET saw  == acc.st[swStore]
        told == [acc EXCEPT !.ev = Append(@, SwapEvent("notify", d, l, saw))]
    IN  IF l \in Reacting /\ saw = Trigger
            THEN reduxDispatch(swStore, "INC", told)
            ELSE told

\* redux calls the listeners of the container in registration order
callListeners(ls, c, d, acc) ==
    IF ls = <<>> THEN acc
    ELSE LET l == Head(ls)
             next == IF l = Internal THEN internalListener(c, d, acc)
                     ELSE userListener(l, d, acc)
         IN  callListeners(Tail(ls), c, d, next)

\* redux's store.dispatch on container c: the reducer runs, the state is
\* assigned, the listeners are called
reduxDispatch(c, type, acc) ==
    LET d  == acc.n
        s2 == swReduce(acc.st[c], type)
        ran == [acc EXCEPT !.st[c] = s2,
                           !.ev = Append(@, SwapEvent("reduce", d, c, s2)),
                           !.n = d + 1]
    IN  callListeners(containers[c].listeners, c, d, ran)

States == [c \in Containers |-> containers[c].state]

SwapCall(op, c, type, run) ==
    [op |-> op, c |-> c, type |-> type, trace |-> run.ev,
     preStore |-> swStore, preStates |-> States, preEmitted |-> emitted,
     preSelects |-> swSelects, preRegistered |-> registered]

NoRun == RunOf(States, swSubject, emitted)

\* The mutant: replaceStore that leaves the internal listener on the
\* previous container.
replaceStoreKeepingListener(c) ==
    /\ nSwapOps < MaxSwapOps
    /\ swStore \notin {NoStore, c}
    /\ nSwapOps' = nSwapOps + 1
    /\ swStore' = c
    /\ swUnsubscribe' = c
    /\ containers' = [containers EXCEPT ![c].listeners = Append(@, Internal)]
    /\ LET run == subjectNext(swSelects, NoRun, containers[c].state)
       IN  /\ swSubject' = run.subj
           /\ emitted' = run.em
           /\ lastSwap' = SwapCall("replaceStore", c, "none", run)
    /\ UNCHANGED <<swSelects, registered>>

\* NgRedux.provideStore(reducer, store) on a new instance: setStore(store)
swProvideStore(c) ==
    /\ nSwapOps < MaxSwapOps
    /\ swStore = NoStore
    /\ nSwapOps' = nSwapOps + 1
    /\ swStore' = c
    /\ swUnsubscribe' = c
    /\ containers' = [containers EXCEPT ![c].listeners = Append(@, Internal)]
    /\ LET run == subjectNext(swSelects, NoRun, containers[c].state)
       IN  /\ swSubject' = run.subj
           /\ emitted' = run.em
           /\ lastSwap' = SwapCall("provideStore", c, "none", run)
    /\ UNCHANGED <<swSelects, registered>>

\* NgRedux.replaceStore(store): this._unsubscribe() takes the internal
\* listener off the previous container, setStore(store) pushes the new
\* container's state and puts an internal listener on it
replaceStore(c) ==
    /\ nSwapOps < MaxSwapOps
    /\ swStore \notin {NoStore, c}
    /\ nSwapOps' = nSwapOps + 1
    /\ swStore' = c
    /\ swUnsubscribe' = c
    /\ containers' = [containers EXCEPT
                         ![swUnsubscribe].listeners = Without(@, Internal),
                         ![c].listeners = Append(@, Internal)]
    /\ LET run == subjectNext(swSelects, NoRun, containers[c].state)
       IN  /\ swSubject' = run.subj
           /\ emitted' = run.em
           /\ lastSwap' = SwapCall("replaceStore", c, "none", run)
    /\ UNCHANGED <<swSelects, registered>>

\* NgRedux.subscribe(listener): this._store.subscribe(listener)
swSubscribe(l) ==
    /\ nSwapOps < MaxSwapOps
    /\ swStore # NoStore
    /\ l \notin registered
    /\ nSwapOps' = nSwapOps + 1
    /\ registered' = registered \cup {l}
    /\ containers' = [containers EXCEPT ![swStore].listeners = Append(@, l)]
    /\ lastSwap' = SwapCall("subscribe", swStore, "none", NoRun)
    /\ UNCHANGED <<swStore, swUnsubscribe, swSubject, swSelects, emitted>>

\* select(selector, comparator).subscribe(): the subject replays its last
\* value to the new subscriber
swSelect(x) ==
    /\ nSwapOps < MaxSwapOps
    /\ swStore # NoStore
    /\ x \notin swSelects
    /\ nSwapOps' = nSwapOps + 1
    /\ swSelects' = swSelects \cup {x}
    /\ emitted' = [emitted EXCEPT ![x] = selectDistinct(x, <<>>, swSubject)]
    /\ lastSwap' = SwapCall("select", swStore, "none", NoRun)
    /\ UNCHANGED <<swStore, swUnsubscribe, containers, swSubject, registered>>

\* store.dispatch(action) on container c; NgRedux.dispatch(action) is this
\* call on the container in use
containerDispatch(op, c, type) ==
    /\ nSwapOps < MaxSwapOps
    /\ containers[c].state < MaxSwapState
    /\ nSwapOps' = nSwapOps + 1
    /\ LET run == reduxDispatch(c, type, NoRun)
       IN  /\ containers' = [k \in Containers |->
                                [containers[k] EXCEPT !.state = run.st[k]]]
           /\ swSubject' = run.subj
           /\ emitted' = run.em
           /\ lastSwap' = SwapCall(op, c, type, run)
    /\ UNCHANGED <<swStore, swUnsubscribe, swSelects, registered>>

\* NgRedux.dispatch(action)
swDispatch(type) ==
    /\ swStore # NoStore
    /\ containerDispatch("dispatch", swStore, type)

\* a dispatch made on a container by a holder of the redux store itself
directDispatch(c, type) == containerDispatch("direct", c, type)

\* new NgRedux(); the containers were made by createStore with the counter
\* reducer
InitSwap ==
    /\ swStore = NoStore
    /\ swUnsubscribe = NoStore
    /\ containers = [c \in Containers |-> [state |-> 0, listeners |-> <<>>]]
    /\ swSubject = NoState
    /\ swSelects = {}
    /\ emitted = [x \in SwapSelectIds |-> <<>>]
    /\ registered = {}
    /\ nSwapOps = 0
    /\ lastSwap = [op |-> "new", c |-> NoStore, type |-> "none", trace |-> <<>>,
                   preStore |-> NoStore,
                   preStates |-> [c \in Containers |-> 0],
                   preEmitted |-> [x \in SwapSelectIds |-> <<>>],
                   preSelects |-> {}, preRegistered |-> {}]

IdleSwap == InitSwap

SwProvideStore == \E c \in Containers : swProvideStore(c)
ReplaceStore   == \E c \in Containers : replaceStore(c)
SwSubscribe    == \E l \in SwapListeners : swSubscribe(l)
SwSelect       == \E x \in SwapSelectIds : swSelect(x)
SwDispatch     == \E t \in SwapTypes : swDispatch(t)
DirectDispatch == \E c \in Containers, t \in SwapTypes : directDispatch(c, t)

SwapFrame == UNCHANGED <<baseVars, subVars, cdVars, trackerVars, triggerVars, sliceVars, hydrVars, unloadVars, snapVars>>

NextSwap ==
    \/ SwProvideStore /\ SwapFrame
    \/ ReplaceStore /\ SwapFrame
    \/ SwSubscribe /\ SwapFrame
    \/ SwSelect /\ SwapFrame
    \/ SwDispatch /\ SwapFrame
    \/ DirectDispatch /\ SwapFrame


\* who was told in the course of a call
NotifiedIn(trace) ==
    {trace[i].who : i \in {j \in DOMAIN trace : trace[j].k = "notify"}}

(***************************************************************************)
(* C21: after replaceStore(newStore), getState() and dispatch() work on    *)
(* newStore; a state change of the previous container reaches no           *)
(* subscriber of this NgRedux; and every subscriber registered before the  *)
(* call, the select subscribers and the listeners passed to subscribe()    *)
(* alike, is told of the later dispatches made through this NgRedux.       *)
(***************************************************************************)
C21_ReplaceStoreKeepsSubscribers ==
    /\ (swStore # NoStore => swStore = swUnsubscribe)
    /\ (lastSwap.op = "dispatch" =>
            /\ lastSwap.trace[1] =
                   SwapEvent("reduce", 1, swStore,
                             swReduce(lastSwap.preStates[swStore], lastSwap.type))
            /\ \A e \in {lastSwap.trace[i] : i \in DOMAIN lastSwap.trace} :
                   e.k = "reduce" => e.who = swStore
            /\ Internal \in NotifiedIn(lastSwap.trace)
            /\ registered \subseteq NotifiedIn(lastSwap.trace))
    /\ (lastSwap.op = "direct" /\ lastSwap.c # swStore /\ swStore # NoStore =>
            /\ emitted = lastSwap.preEmitted
            /\ NotifiedIn(lastSwap.trace) \cap (registered \cup {Internal}) = {})

\* the same for the select subscribers alone
SelectStreamsFollowReplaceStore ==
    /\ (swStore # NoStore => swStore = swUnsubscribe)
    /\ (lastSwap.op = "dispatch" =>
            /\ Internal \in NotifiedIn(lastSwap.trace)
            /\ swSubject = States[swStore])
    /\ (lastSwap.op = "direct" /\ lastSwap.c # swStore /\ swStore # NoStore
            /\ (\A i \in DOMAIN lastSwap.trace :
                    lastSwap.trace[i].k = "reduce" => lastSwap.trace[i].who # swStore)
            => emitted = lastSwap.preEmitted /\ Internal \notin NotifiedIn(lastSwap.trace))


\* the dispatches the reducer ran for in the course of a call
ReducedIn(trace) == {i \in DOMAIN trace : trace[i].k = "reduce"}

(***************************************************************************)
(* C22: a subscriber of select(selector, comparator) receives the current  *)
(* selected value at once when it subscribes; after that a dispatch hands  *)
(* it the selected value exactly once when that value differs, by the      *)
(* comparator (by reference without one), from the value handed to it      *)
(* last, and hands it nothing when the value is equal.  Stated for the     *)
(* dispatches in which no listener dispatches in turn.                     *)
(***************************************************************************)
C22_SelectEmitsDistinctValues ==
    /\ (lastSwap.op = "select" =>
            \A x \in swSelects \ lastSwap.preSelects :
                emitted[x] = <<States[swStore]>>)
    /\ (lastSwap.op = "dispatch" /\ Cardinality(ReducedIn(lastSwap.trace)) = 1 =>
            \A x \in lastSwap.preSelects :
                LET before == lastSwap.preEmitted[x]
                    v == States[swStore]
                IN  emitted[x] = IF comparator(x, LastOf(before), v)
                                     THEN before
                                     ELSE Append(before, v))

\* two select subscribers, one with a comparator that calls 1 and 2 equal;
\* the dispatch from 1 to 2 reached the one without a comparator only
C22_Witness ==
    /\ lastSwap.op = "dispatch"
    /\ lastSwap.type = "INC"
    /\ Cardinality(ReducedIn(lastSwap.trace)) = 1
    /\ lastSwap.preSelects = {"byRef", "byCmp"}
    /\ emitted["byRef"] = <<0, 1, 2>>
    /\ emitted["byCmp"] = <<0, 1>>


\* the places in a trace where listener l was told in the course of dispatch d
ToldAt(trace, l, d) ==
    {i \in DOMAIN trace : trace[i].k = "notify" /\ trace[i].who = l /\ trace[i].d = d}

(***************************************************************************)
(* C23: when a listener calls dispatch(b) while it is told of dispatch(a), *)
(* the reducer does not run for b before every subscriber has been told of *)
(* a, every subscriber sees the state a produced before it sees the state  *)
(* b produced, and every subscriber is then told of b.                     *)
(***************************************************************************)
C23_NestedDispatchIsDeferred ==
    lastSwap.op = "dispatch" /\ Cardinality(ReducedIn(lastSwap.trace)) > 1 =>
        LET trace == lastSwap.trace
            ranA == CHOOSE i \in ReducedIn(trace) : trace[i].d = 1
            ranB == CHOOSE i \in ReducedIn(trace) : trace[i].d = 2
        IN  \A l \in {containers[swStore].listeners[i] :
                          i \in DOMAIN containers[swStore].listeners} :
                /\ \E i \in ToldAt(trace, l, 1) :
                       /\ i < ranB
                       /\ trace[i].saw = trace[ranA].saw
                /\ \E j \in ToldAt(trace, l, 2) : j > ranB


(***************************************************************************)
(* ReducerService: the sub-reducers registered by hash                     *)
(***************************************************************************)
\* ReducerService calls made
MaxSubOps == 4
\* the hashes are 1..MaxHash
MaxHash == 2

Hashes == 1..MaxHash
SubReducerFns == {"r1", "r2"}
NoSubReducer == "absent"

\* ReducerService.getSubReducerCount()
getSubReducerCount == Cardinality({h \in Hashes : subReducers[h] # NoSubReducer})

SubCall(op, hash, fn, returned) ==
    [op |-> op, hash |-> hash, fn |-> fn, returned |-> returned,
     before |-> subReducers, liveBefore |-> subLive]

\* The mutant: registerSubReducer that stores the reducer it is given
\* whether or not the hash is registered.
registerSubReducerOverwriting(hash, fn) ==
    /\ nSubOps < MaxSubOps
    /\ nSubOps' = nSubOps + 1
    /\ subReducers' = [subReducers EXCEPT ![hash] = fn]
    /\ subLive' = subLive \cup {hash}
    /\ subFirst' = IF hash \in subLive THEN subFirst ELSE [subFirst EXCEPT ![hash] = fn]
    /\ lastSub' = SubCall("register", hash, fn, FALSE)

\* ReducerService.registerSubReducer(hash, reducer): a hash that is
\* registered keeps the reducer it has
registerSubReducer(hash, fn) ==
    /\ nSubOps < MaxSubOps
    /\ nSubOps' = nSubOps + 1
    /\ subReducers' = IF subReducers[hash] # NoSubReducer THEN subReducers
                      ELSE [subReducers EXCEPT ![hash] = fn]
    /\ subLive' = subLive \cup {hash}
    /\ subFirst' = IF hash \in subLive THEN subFirst ELSE [subFirst EXCEPT ![hash] = fn]
    /\ lastSub' = SubCall("register", hash, fn, FALSE)

\* ReducerService.unregisterSubReducer(hash): true when an entry was there
\* and was removed
unregisterSubReducer(hash) ==
    /\ nSubOps < MaxSubOps
    /\ nSubOps' = nSubOps + 1
    /\ subReducers' = [subReducers EXCEPT ![hash] = NoSubReducer]
    /\ subLive' = subLive \ {hash}
    /\ subFirst' = [subFirst EXCEPT ![hash] = NoSubReducer]
    /\ lastSub' = SubCall("unregister", hash, NoSubReducer, subReducers[hash] # NoSubReducer)

\* ReducerService.reset(): the next getInstance() is a new service without
\* registrations
subReset ==
    /\ nSubOps < MaxSubOps
    /\ nSubOps' = nSubOps + 1
    /\ subReducers' = [h \in Hashes |-> NoSubReducer]
    /\ subLive' = {}
    /\ subFirst' = [h \in Hashes |-> NoSubReducer]
    /\ lastSub' = SubCall("reset", 0, NoSubReducer, FALSE)

\* ReducerService.getInstance() of a fresh process
InitSub ==
    /\ subReducers = [h \in Hashes |-> NoSubReducer]
    /\ subLive = {}
    /\ subFirst = [h \in Hashes |-> NoSubReducer]
    /\ nSubOps = 0
    /\ lastSub = [op |-> "new", hash |-> 0, fn |-> NoSubReducer, returned |-> FALSE,
                  before |-> [h \in Hashes |-> NoSubReducer], liveBefore |-> {}]

IdleSub == InitSub

RegisterSubReducer   == \E h \in Hashes, f \in SubReducerFns : registerSubReducer(h, f)
UnregisterSubReducer == \E h \in Hashes : unregisterSubReducer(h)

SubFrame == UNCHANGED <<baseVars, swapVars, cdVars, trackerVars, triggerVars, sliceVars, hydrVars, unloadVars, snapVars>>

NextSub ==
    \/ RegisterSubReducer /\ SubFrame
    \/ UnregisterSubReducer /\ SubFrame
    \/ subReset /\ SubFrame

(***************************************************************************)
(* C24: getSubReducerCount() is the number of distinct hashes registered   *)
(* and not unregistered or reset since; registering a hash that is         *)
(* registered changes neither the count nor the reducer stored for it;     *)
(* unregisterSubReducer(hash) returns true exactly when the hash was       *)
(* registered and then removes it, and otherwise returns false and changes *)
(* nothing.                                                                *)
(***************************************************************************)
C24_SubReducerRegistry ==
    /\ getSubReducerCount = Cardinality(subLive)
    /\ \A h \in subLive : subReducers[h] = subFirst[h]
    /\ (lastSub.op = "register" /\ lastSub.hash \in lastSub.liveBefore =>
            subReducers = lastSub.before)
    /\ (lastSub.op = "unregister" =>
            /\ lastSub.returned = (lastSub.hash \in lastSub.liveBefore)
            /\ subReducers[lastSub.hash] = NoSubReducer
            /\ \A h \in Hashes \ {lastSub.hash} : subReducers[h] = lastSub.before[h]
            /\ (~lastSub.returned => subReducers = lastSub.before))

\* a registered hash was registered again with another reducer
C24_Witness ==
    /\ lastSub.op = "register"
    /\ lastSub.hash \in lastSub.liveBefore
    /\ lastSub.fn # lastSub.before[lastSub.hash]
    /\ getSubReducerCount = 2


(***************************************************************************)
(* The change-detection notifiers and the dispatch that calls them         *)
(***************************************************************************)
\* calls made on one NgRedux and its notifiers
MaxCdOps == 4

\* the notifiers: the three the library ships and two of the caller's own
ZoneNotifier     == "ZoneChangeDetectionNotifier"
ZonelessNotifier == "ZonelessChangeDetectionNotifier"
NoopNotifier     == "NoopChangeDetectionNotifier"
CustomNotifiers  == {"custom1", "custom2"}
Notifiers == {ZoneNotifier, ZonelessNotifier, NoopNotifier} \cup CustomNotifiers
NoNotifier == "undefined"
CdTypes == {"INCREMENT", "BOOM"}

\* isZoneless(ngZone): no NgZone, a NoopNgZone, or no Zone global
isZoneless(hasZone, usable) == ~hasZone \/ ~usable

\* NgRedux._configureCdNotifier(customNotifier)
configureCdNotifier(custom, zoneless, hasZone, hasAppRef) ==
    IF custom # NoNotifier THEN custom
    ELSE IF zoneless /\ hasAppRef THEN ZonelessNotifier
    ELSE IF ~zoneless /\ hasZone THEN ZoneNotifier
    ELSE NoopNotifier

\* the constructor of ZonelessNgRedux, after super(...)
zonelessConstructor(custom, hasAppRef) ==
    IF custom # NoNotifier THEN custom
    ELSE IF hasAppRef THEN ZonelessNotifier
    ELSE NoopNotifier

\* how many times notifier.notify() calls ApplicationRef.tick()
ticksOf(notifier) == IF notifier = ZonelessNotifier THEN 1 ELSE 0

CdCall(op, arg, threw, events) ==
    [op |-> op, arg |-> arg, threw |-> threw, events |-> events,
     notifier |-> cdNotifier, calls |-> notifyCalls, ticks |-> ticks,
     turnNotifies |-> turnNotifies, turnTicks |-> turnTicks]

\* notifier.notify()
notify(notifier) ==
    /\ notifyCalls' = [notifyCalls EXCEPT ![notifier] = @ + 1]
    /\ ticks' = ticks + ticksOf(notifier)
    /\ turnTicks' = turnTicks + ticksOf(notifier)
    /\ turnNotifies' = IF notifier = ZonelessNotifier THEN turnNotifies + 1
                       ELSE turnNotifies

\* The mutant: dispatch that takes the ngZone.run branch whenever an NgZone
\* was injected.
cdDispatchViaZone(type, inAngularZone) ==
    /\ nCdOps < MaxCdOps
    /\ nCdOps' = nCdOps + 1
    /\ IF ~cdConfigured \/ type = "BOOM"
          THEN /\ lastCd' = CdCall("dispatch", type, TRUE, <<>>)
               /\ UNCHANGED <<cdCount, notifyCalls, ticks, turnNotifies, turnTicks>>
          ELSE /\ cdCount' = cdCount + 1
               /\ IF cdHasZone /\ ~inAngularZone
                     THEN /\ lastCd' = CdCall("dispatch", type, FALSE, <<"state">>)
                          /\ UNCHANGED <<notifyCalls, ticks, turnNotifies, turnTicks>>
                     ELSE /\ lastCd' = CdCall("dispatch", type, FALSE, <<"state", "notify">>)
                          /\ notify(cdNotifier)
    /\ UNCHANGED <<cdForced, cdHasZone, cdZoneless, cdConfigured, cdNotifier>>

\* NgRedux.dispatch(action): without a store it throws; in zone mode outside
\* the Angular zone it returns what ngZone.run returns; otherwise the store
\* dispatches and, in zoneless mode, the notifier is called.  A reducer that
\* throws leaves the state and ends the call.
cdDispatch(type, inAngularZone) ==
    /\ nCdOps < MaxCdOps
    /\ nCdOps' = nCdOps + 1
    /\ IF ~cdConfigured \/ type = "BOOM"
          THEN /\ lastCd' = CdCall("dispatch", type, TRUE, <<>>)
               /\ UNCHANGED <<cdCount, notifyCalls, ticks, turnNotifies, turnTicks>>
          ELSE /\ cdCount' = cdCount + 1
               /\ IF ~cdZoneless /\ cdHasZone /\ ~inAngularZone
                     THEN /\ lastCd' = CdCall("dispatch", type, FALSE, <<"state">>)
                          /\ UNCHANGED <<notifyCalls, ticks, turnNotifies, turnTicks>>
                     ELSE IF cdZoneless /\ cdNotifier # NoNotifier
                     THEN /\ lastCd' = CdCall("dispatch", type, FALSE, <<"state", "notify">>)
                          /\ notify(cdNotifier)
                     ELSE /\ lastCd' = CdCall("dispatch", type, FALSE, <<"state">>)
                          /\ UNCHANGED <<notifyCalls, ticks, turnNotifies, turnTicks>>
    /\ UNCHANGED <<cdForced, cdHasZone, cdZoneless, cdConfigured, cdNotifier>>

\* NgRedux.configureStore(rootReducer, defaultState)
cdConfigureStore ==
    /\ nCdOps < MaxCdOps
    /\ ~cdConfigured
    /\ nCdOps' = nCdOps + 1
    /\ cdConfigured' = TRUE
    /\ lastCd' = CdCall("configureStore", "none", FALSE, <<>>)
    /\ UNCHANGED <<cdForced, cdHasZone, cdZoneless, cdNotifier, cdCount, notifyCalls,
                   ticks, turnNotifies, turnTicks>>

\* NgRedux.setNotifier(notifier)
setNotifier(notifier) ==
    /\ nCdOps < MaxCdOps
    /\ nCdOps' = nCdOps + 1
    /\ cdNotifier' = notifier
    /\ lastCd' = CdCall("setNotifier", notifier, FALSE, <<>>)
    /\ UNCHANGED <<cdForced, cdHasZone, cdZoneless, cdConfigured, cdCount, notifyCalls,
                   ticks, turnNotifies, turnTicks>>

\* ZonelessNgRedux.configureZoneless(appRef, strategy)
configureZoneless(strategy) ==
    /\ nCdOps < MaxCdOps
    /\ cdForced
    /\ nCdOps' = nCdOps + 1
    /\ cdNotifier' = IF strategy = "noop" THEN NoopNotifier ELSE ZonelessNotifier
    /\ lastCd' = CdCall("configureZoneless", strategy, FALSE, <<>>)
    /\ UNCHANGED <<cdForced, cdHasZone, cdZoneless, cdConfigured, cdCount, notifyCalls,
                   ticks, turnNotifies, turnTicks>>

\* notify() called on a ZonelessChangeDetectionNotifier by its holder
zonelessNotify ==
    /\ nCdOps < MaxCdOps
    /\ nCdOps' = nCdOps + 1
    /\ notify(ZonelessNotifier)
    /\ lastCd' = CdCall("notify", ZonelessNotifier, FALSE, <<"notify">>)
    /\ UNCHANGED <<cdForced, cdHasZone, cdZoneless, cdConfigured, cdNotifier, cdCount>>

\* the microtask checkpoint at the end of a turn: notify() queued no
\* microtask, so nothing runs; the next turn begins
microtaskCheckpoint ==
    /\ nCdOps < MaxCdOps
    /\ nCdOps' = nCdOps + 1
    /\ turnNotifies' = 0
    /\ turnTicks' = 0
    /\ lastCd' = CdCall("checkpoint", "none", FALSE, <<>>)
    /\ UNCHANGED <<cdForced, cdHasZone, cdZoneless, cdConfigured, cdNotifier, cdCount,
                   notifyCalls, ticks>>

\* new NgRedux(ngZone?, appRef?, customNotifier?) or new ZonelessNgRedux(...)
InitCd ==
    /\ cdForced \in BOOLEAN
    /\ cdHasZone \in BOOLEAN
    /\ \E usable \in BOOLEAN, hasAppRef \in BOOLEAN,
          custom \in {NoNotifier, "custom1"} :
          /\ (~cdHasZone => ~usable)
          /\ cdZoneless = (cdForced \/ isZoneless(cdHasZone, usable))
          /\ cdNotifier =
                 IF cdForced THEN zonelessConstructor(custom, hasAppRef)
                 ELSE configureCdNotifier(custom, isZoneless(cdHasZone, usable),
                                          cdHasZone, hasAppRef)
    /\ cdConfigured = FALSE
    /\ cdCount = 0
    /\ notifyCalls = [n \in Notifiers |-> 0]
    /\ ticks = 0
    /\ turnNotifies = 0
    /\ turnTicks = 0
    /\ nCdOps = 0
    /\ lastCd = [op |-> "new", arg |-> "none", threw |-> FALSE, events |-> <<>>,
                 notifier |-> cdNotifier, calls |-> [n \in Notifiers |-> 0], ticks |-> 0,
                 turnNotifies |-> 0, turnTicks |-> 0]

\* an instance nothing is done with
IdleCd == InitCd /\ ~cdForced /\ ~cdHasZone /\ cdNotifier = NoopNotifier

CdDispatch        == \E t \in CdTypes, z \in BOOLEAN : cdDispatch(t, z)
SetNotifier       == \E n \in Notifiers : setNotifier(n)
ConfigureZoneless == \E s \in {"tick", "noop"} : configureZoneless(s)

CdFrame == UNCHANGED <<baseVars, swapVars, subVars, trackerVars, triggerVars, sliceVars, hydrVars, unloadVars, snapVars>>

NextCd ==
    \/ cdConfigureStore /\ CdFrame
    \/ CdDispatch /\ CdFrame
    \/ SetNotifier /\ CdFrame
    \/ ConfigureZoneless /\ CdFrame
    \/ zonelessNotify /\ CdFrame
    \/ microtaskCheckpoint /\ CdFrame

C26_TicksAreCoalesced ==
    /\ turnTicks = 0
    /\ (lastCd.op = "checkpoint" /\ lastCd.turnNotifies >= 1 =>
            ticks = lastCd.ticks + 1)

(***************************************************************************)
(* C27: in any mode, zone or zoneless, the notifier installed last (by the *)
(* constructor or by setNotifier) has notify() called after every dispatch *)
(* that succeeds, and a notifier that was replaced is not called again.    *)
(***************************************************************************)
C27_LastNotifierIsCalled ==
    lastCd.op = "dispatch" /\ ~lastCd.threw =>
        notifyCalls = [lastCd.calls EXCEPT ![cdNotifier] = @ + 1]

\* the same in zoneless mode
ZonelessLastNotifierIsCalled ==
    lastCd.op = "dispatch" /\ ~lastCd.threw /\ cdZoneless =>
        notifyCalls = [lastCd.calls EXCEPT ![cdNotifier] = @ + 1]


(***************************************************************************)
(* StoreActionTracker: enable, disable, reset and the dispatch it wraps    *)
(***************************************************************************)
\* calls made on one tracker and its store
MaxTrOps == 4
\* enable() calls that install a wrapper
MaxTrEnable == 2

\* private maxHistory = 100
maxHistory == 100

\* action.type: two types, the empty string, and an action without a type
NoType == "undefined"
Null   == "null"
TrTypes == {"A", "B", "", NoType}
TrWrapper == "wrapper"

\* if (action?.type)
truthyType(type) == type \notin {"", NoType}

\* The mutant: the history grows without the oldest entry being dropped.
pushHistoryUnbounded(history, type) ==
    IF truthyType(type) THEN Append(history, type) ELSE history

\* actionHistory.push(action.type); if (length > maxHistory) shift()
pushHistory(history, type) ==
    IF ~truthyType(type) THEN history
    ELSE IF Len(history) + 1 > maxHistory THEN Tail(Append(history, type))
    ELSE Append(history, type)

\* the part of the wrapper that runs while the tracker is enabled, before
\* the dispatch it calls
track(info, type) ==
    [actionCount    |-> info.actionCount + 1,
     lastActionType |-> IF type = NoType THEN Null ELSE type,
     actionHistory  |-> pushHistory(info.actionHistory, type)]

RECURSIVE trackTimes(_, _, _)
trackTimes(info, type, n) ==
    IF n = 0 THEN info ELSE trackTimes(track(info, type), type, n - 1)

Repeat(x, n) == [i \in 1..n |-> x]

\* info after n tracked dispatches of type "A" on a new tracker, n <= maxHistory
infoAfter(n) ==
    [actionCount    |-> n,
     lastActionType |-> IF n > 0 THEN "A" ELSE Null,
     actionHistory  |-> Repeat("A", n)]

EmptyInfo == infoAfter(0)

TrCall(op, type, threw) ==
    [op |-> op, type |-> type, threw |-> threw, enabled |-> trEnabled,
     wrappers |-> trWrappers, previous |-> trPrevious, info |-> trInfo,
     counter |-> trCounter]

\* StoreActionTracker.enable(): every wrapper reads the one field
\* previousDispatch, which now holds store.dispatch as it was before this call
trEnable ==
    /\ nTrOps < MaxTrOps
    /\ trEnabled \/ trWrappers < MaxTrEnable
    /\ nTrOps' = nTrOps + 1
    /\ lastTr' = TrCall("enable", NoType, FALSE)
    /\ IF trEnabled
          THEN UNCHANGED <<trEnabled, trWrappers, trPrevious>>
          ELSE /\ trEnabled' = TRUE
               /\ trPrevious' = IF trWrappers = 0 THEN BaseDispatch ELSE TrWrapper
               /\ trWrappers' = trWrappers + 1
    /\ UNCHANGED <<trInfo, trTyped, trCounter>>

\* StoreActionTracker.disable()
trDisable ==
    /\ nTrOps < MaxTrOps
    /\ nTrOps' = nTrOps + 1
    /\ trEnabled' = FALSE
    /\ lastTr' = TrCall("disable", NoType, FALSE)
    /\ UNCHANGED <<trWrappers, trPrevious, trInfo, trTyped, trCounter>>

\* StoreActionTracker.reset()
trReset ==
    /\ nTrOps < MaxTrOps
    /\ nTrOps' = nTrOps + 1
    /\ trInfo' = EmptyInfo
    /\ trTyped' = <<>>
    /\ lastTr' = TrCall("reset", NoType, FALSE)
    /\ UNCHANGED <<trEnabled, trWrappers, trPrevious, trCounter>>

\* store.dispatch(action).  The store's own dispatch applies the action and
\* throws for an action without a type.  A wrapper of the tracker counts
\* when the tracker is enabled and calls previousDispatch; when
\* previousDispatch is a wrapper of the tracker the call goes round until
\* the stack is used up, StackDepth wrapper calls deep.
trDispatch(type) ==
    /\ nTrOps < MaxTrOps
    /\ nTrOps' = nTrOps + 1
    /\ LET looping == trWrappers > 0 /\ trPrevious = TrWrapper
           hops == IF trWrappers = 0 \/ ~trEnabled THEN 0
                   ELSE IF looping THEN StackDepth ELSE 1
           threw == looping \/ type = NoType
       IN  /\ trInfo' = trackTimes(trInfo, type, hops)
           /\ trTyped' = IF truthyType(type) THEN trTyped \o Repeat(type, hops)
                         ELSE trTyped
           /\ trCounter' = IF threw THEN trCounter ELSE trCounter + 1
           /\ lastTr' = TrCall("dispatch", type, threw)
    /\ UNCHANGED <<trEnabled, trWrappers, trPrevious>>

\* the dispatches of type "A" made on an enabled tracker before the calls
\* that follow
Prefill == {0, maxHistory - 1, maxHistory}

\* new StoreActionTracker(store), or that followed by enable() and n
\* dispatches of type "A"
InitTracker ==
    /\ \E n \in Prefill :
          /\ trEnabled = (n > 0)
          /\ trWrappers = IF n > 0 THEN 1 ELSE 0
          /\ trPrevious = IF n > 0 THEN BaseDispatch ELSE NotInstalled
          /\ trInfo = infoAfter(n)
          /\ trTyped = Repeat("A", n)
          /\ trCounter = n
    /\ nTrOps = 0
    /\ lastTr = [op |-> "new", type |-> NoType, threw |-> FALSE, enabled |-> FALSE,
                 wrappers |-> 0, previous |-> NotInstalled, info |-> EmptyInfo,
                 counter |-> 0]

IdleTracker == InitTracker /\ trCounter = 0

TrDispatch == \E t \in TrTypes : trDispatch(t)

TrackerFrame == UNCHANGED <<baseVars, swapVars, subVars, cdVars, triggerVars, sliceVars, hydrVars, unloadVars, snapVars>>

NextTracker ==
    \/ trEnable /\ TrackerFrame
    \/ trDisable /\ TrackerFrame
    \/ trReset /\ TrackerFrame
    \/ TrDispatch /\ TrackerFrame

(***************************************************************************)
(* C28: for any interleaving of enable(), disable() and dispatches on one  *)
(* tracker, enabling again after a disable included, every dispatch of an  *)
(* action with a type ends and applies the action exactly once,            *)
(* actionCount grows by exactly 1 when the tracker is enabled and by 0     *)
(* when it is disabled, and enable() on an enabled tracker changes nothing.*)
(***************************************************************************)
C28_TrackerWrapsDispatchOnce ==
    /\ (lastTr.op = "dispatch" /\ lastTr.type # NoType =>
            /\ ~lastTr.threw
            /\ trCounter = lastTr.counter + 1
            /\ trInfo.actionCount =
                   lastTr.info.actionCount + (IF trEnabled THEN 1 ELSE 0))
    /\ (lastTr.op = "enable" /\ lastTr.enabled =>
            /\ trEnabled
            /\ trWrappers = lastTr.wrappers
            /\ trPrevious = lastTr.previous
            /\ trInfo = lastTr.info)

\* the same for a tracker that was enabled at most once
TrackerEnabledOnceWrapsDispatchOnce ==
    trWrappers <= 1 => C28_TrackerWrapsDispatchOnce

LastN(seq, n) == SubSeq(seq, Len(seq) - n + 1, Len(seq))

Min(a, b) == IF a < b THEN a ELSE b

(***************************************************************************)
(* C29: actionHistory never holds more than 100 entries; after every       *)
(* tracked dispatch it is the types of the last min(n, 100) typed actions  *)
(* dispatched while enabled since construction or the last reset(), oldest *)
(* first, and lastActionType is the type of the most recent tracked        *)
(* dispatch.                                                               *)
(***************************************************************************)
C29_HistoryKeepsLastHundred ==
    /\ Len(trInfo.actionHistory) <= maxHistory
    /\ (lastTr.op = "dispatch" /\ lastTr.enabled /\ lastTr.wrappers > 0 /\ ~lastTr.threw =>
            /\ trInfo.actionHistory = LastN(trTyped, Min(Len(trTyped), maxHistory))
            /\ trInfo.lastActionType = lastTr.type)

\* the hundred-and-first typed action pushed the oldest entry out
C29_Witness ==
    /\ lastTr.op = "dispatch"
    /\ lastTr.enabled
    /\ ~lastTr.threw
    /\ lastTr.type = "B"
    /\ Len(lastTr.info.actionHistory) = maxHistory
    /\ Len(trTyped) = maxHistory + 1
    /\ trInfo.actionHistory[maxHistory] = "B"
    /\ trInfo.actionHistory[1] = "A"


(***************************************************************************)
(* RxEffectRef.trigger()                                                   *)
(***************************************************************************)
\* trigger() calls made on one effect
MaxTriggers == 2

\* rxEffect: trigger: () => manualTrigger$.next(), a Subject nothing is
\* subscribed to; rxActionEffect: trigger: () => {}
trigger ==
    /\ effTriggers < MaxTriggers
    /\ effDestroyCalls = 0
    /\ UNCHANGED effectVars
    /\ effTriggers' = effTriggers + 1
    /\ lastTrigger' = [kind |-> effKind,
                       busy |-> Active(effStatus) # {},
                       invokedBefore |-> Len(effInvoked),
                       invokedAfter |-> Len(effInvoked')]

InitTrigger ==
    /\ effTriggers = 0
    /\ lastTrigger = [kind |-> "none", busy |-> FALSE, invokedBefore |-> 0,
                      invokedAfter |-> 0]

IdleTrigger == InitTrigger

TriggerFrame == UNCHANGED <<storeVars, replacedWith, entityVars, selectorVars, wrapVars,
                            lazyVars, swapVars, subVars, cdVars, trackerVars, sliceVars, hydrVars, unloadVars, snapVars>>

\* an effect whose source delivers values and whose tasks complete, with
\* trigger() called at any time
NextEffectTrigger ==
    \/ EffSelectEmits /\ EffectFrame
    \/ EffMatchingDispatch /\ EffectFrame
    \/ EffTaskComplete /\ EffectFrame
    \/ trigger /\ TriggerFrame

(***************************************************************************)
(* C30: trigger() on the RxEffectRef of rxEffect or rxActionEffect, called *)
(* before destroy(), activates the effect function once (as far as the     *)
(* concurrency policy lets a new activation start) without a state change  *)
(* or a dispatch.                                                          *)
(***************************************************************************)
C30_TriggerActivatesEffect ==
    effTriggers > 0 /\ (~lastTrigger.busy \/ effConcurrency \in {"switch", "merge", Unset}) =>
        lastTrigger.invokedAfter = lastTrigger.invokedBefore + 1


(***************************************************************************)
(* ComponentStoreSlice: creation, selectSignal, dispatch and destroy       *)
(***************************************************************************)
\* calls made on one slice and its root store
MaxSlOps == 4

\* no hash: the slice is not created yet
NoSlice == MaxHash + 1
\* config.reducer
SliceReducer == "r1"

SlCall(op, threw) ==
    [op |-> op, threw |-> threw, count |-> getSubReducerCount, value |-> slValue,
     processed |-> slProcessed, subscriptions |-> slSubscriptions]

\* rootStore.configureSubStore(path, reducer): registers the local reducer
\* under the hash of its definition
configureSubStore(hash) ==
    /\ subReducers' = IF subReducers[hash] # NoSubReducer THEN subReducers
                      ELSE [subReducers EXCEPT ![hash] = SliceReducer]
    /\ subLive' = subLive \cup {hash}
    /\ subFirst' = IF hash \in subLive THEN subFirst
                   ELSE [subFirst EXCEPT ![hash] = SliceReducer]
    /\ UNCHANGED <<lastSub, nSubOps>>

\* new ComponentStoreSlice(config, rootStore): the slice state is
\* initialised when the path holds nothing, then the sub-store is configured
createSlice(hash) ==
    /\ nSlOps < MaxSlOps
    /\ slHash = NoSlice
    /\ nSlOps' = nSlOps + 1
    /\ slHash' = hash
    /\ slCountBefore' = getSubReducerCount
    /\ configureSubStore(hash)
    /\ lastSl' = SlCall("new", FALSE)
    /\ UNCHANGED <<slSubscriptions, slDestroys, slValue, slProcessed>>

\* ComponentStoreSlice.selectSignal(selector): subscribes and keeps the
\* subscription
slSelectSignal ==
    /\ nSlOps < MaxSlOps
    /\ slHash # NoSlice
    /\ nSlOps' = nSlOps + 1
    /\ slSubscriptions' = slSubscriptions + 1
    /\ lastSl' = SlCall("selectSignal", FALSE)
    /\ UNCHANGED <<slHash, slCountBefore, slDestroys, slValue, slProcessed, subVars>>

\* ComponentStoreSlice.destroy(): the subscriptions of selectSignal are
\* closed and forgotten
slDestroy ==
    /\ nSlOps < MaxSlOps
    /\ slHash # NoSlice
    /\ nSlOps' = nSlOps + 1
    /\ slSubscriptions' = 0
    /\ slDestroys' = slDestroys + 1
    /\ lastSl' = SlCall("destroy", FALSE)
    /\ UNCHANGED <<slHash, slCountBefore, slValue, slProcessed, subVars>>

\* rootStore.dispatch({type: 'SET_VALUE', payload}): the composed reducer
\* applies every sub-reducer that is registered at the time
slDispatch(payload) ==
    /\ nSlOps < MaxSlOps
    /\ slHash # NoSlice
    /\ nSlOps' = nSlOps + 1
    /\ IF subReducers[slHash] # NoSubReducer
          THEN /\ slValue' = payload
               /\ slProcessed' = slProcessed + 1
          ELSE UNCHANGED <<slValue, slProcessed>>
    /\ lastSl' = SlCall("dispatch", FALSE)
    /\ UNCHANGED <<slHash, slCountBefore, slSubscriptions, slDestroys, subVars>>

\* before the slice is created
InitSlice ==
    /\ slHash = NoSlice
    /\ slCountBefore = 0
    /\ slSubscriptions = 0
    /\ slDestroys = 0
    /\ slValue = 0
    /\ slProcessed = 0
    /\ nSlOps = 0
    /\ lastSl = [op |-> "none", threw |-> FALSE, count |-> 0, value |-> 0,
                 processed |-> 0, subscriptions |-> 0]

IdleSlice == InitSlice

\* a ReducerService other parts of the application have registered
\* sub-reducers with
SubInUse ==
    /\ subReducers \in [Hashes -> {NoSubReducer, "r2"}]
    /\ subLive = {h \in Hashes : subReducers[h] # NoSubReducer}
    /\ subFirst = subReducers
    /\ nSubOps = 0
    /\ lastSub = [op |-> "new", hash |-> 0, fn |-> NoSubReducer, returned |-> FALSE,
                  before |-> [h \in Hashes |-> NoSubReducer], liveBefore |-> {}]

CreateSlice == \E h \in Hashes : createSlice(h)
SlDispatch  == \E p \in 1..2 : slDispatch(p)

SliceFrame == UNCHANGED <<baseVars, swapVars, cdVars, trackerVars, triggerVars, hydrVars, unloadVars, snapVars>>

NextSlice ==
    \/ CreateSlice /\ SliceFrame
    \/ slSelectSignal /\ SliceFrame
    \/ slDestroy /\ SliceFrame
    \/ SlDispatch /\ SliceFrame

(***************************************************************************)
(* C31: a ComponentStoreSlice registers its reducer as a sub-reducer when  *)
(* it is created and unregisters it in destroy(): after destroy() the      *)
(* number of registered sub-reducers is what it was before the slice was   *)
(* created and later dispatches are not processed by the slice reducer;    *)
(* destroy() may be called repeatedly without throwing and leaves the root *)
(* state as it is.                                                         *)
(***************************************************************************)
C31_SliceUnregistersOnDestroy ==
    /\ (slHash # NoSlice => subReducers[slHash] # NoSubReducer \/ slDestroys > 0)
    /\ (slDestroys > 0 => getSubReducerCount = slCountBefore)
    /\ (lastSl.op = "dispatch" /\ slDestroys > 0 => slProcessed = lastSl.processed)
    /\ (lastSl.op = "destroy" => ~lastSl.threw /\ slValue = lastSl.value)

\* what destroy() does do: it closes the subscriptions, does not throw and
\* leaves the root state
DestroyClosesSubscriptions ==
    lastSl.op = "destroy" =>
        /\ ~lastSl.threw
        /\ slSubscriptions = 0
        /\ slValue = lastSl.value


(***************************************************************************)
(* rehydrateState: a serialized state read back, with a fallback           *)
(***************************************************************************)
\* rehydrateState calls made
MaxHyOps == 2

\* the texts handed in as `serialized`: null, undefined, the empty string,
\* well-formed JSON and malformed JSON
JsonTexts == {"1", "[1]", "{}"}
BadTexts == {"{bad", "oops"}
Serialized == {Null, NoType, ""} \cup JsonTexts \cup BadTexts
Fallbacks == {"object {}", "object fallback"}
\* no deserializer argument, or a custom one
NoDeserializer == "none"
Deserializers == {NoDeserializer, "raw", "strict", "throwing"}

Returned(v) == [threw |-> FALSE, value |-> v]
Thrown == [threw |-> TRUE, value |-> NoType]

\* JSON.parse(raw): the value the text denotes, a SyntaxError otherwise
JSONparse(raw) ==
    CASE raw = "1"   -> Returned("number 1")
      [] raw = "[1]" -> Returned("array [1]")
      [] raw = "{}"  -> Returned("object {}")
      [] OTHER       -> Thrown

\* the deserializer applied to the raw text: JSON.parse by default; the
\* custom ones keep the text as it is, accept objects only, or always throw
deserialize(deserializer, raw) ==
    CASE deserializer = NoDeserializer -> JSONparse(raw)
      [] deserializer = "raw"          -> Returned(raw)
      [] deserializer = "strict"       -> IF raw = "{}" THEN JSONparse(raw) ELSE Thrown
      [] OTHER                         -> Thrown

\* !serialized
falsy(serialized) == serialized \in {Null, NoType, ""}

\* The mutant: the deserializer called outside a try block.
rehydrateStateUncaught(serialized, fallback, deserializer) ==
    IF falsy(serialized) THEN Returned(fallback)
    ELSE deserialize(deserializer, serialized)

\* rehydrateState(serialized, fallback, deserializer)
rehydrateState(serialized, fallback, deserializer) ==
    IF falsy(serialized) THEN Returned(fallback)
    ELSE IF deserialize(deserializer, serialized).threw THEN Returned(fallback)
    ELSE Returned(deserialize(deserializer, serialized).value)

HyCall(op, serialized, fallback, deserializer, out) ==
    [op |-> op, serialized |-> serialized, fallback |-> fallback,
     deserializer |-> deserializer, threw |-> out.threw, value |-> out.value]

Rehydrate ==
    \E serialized \in Serialized, fallback \in Fallbacks, deserializer \in Deserializers :
        /\ nHyOps < MaxHyOps
        /\ nHyOps' = nHyOps + 1
        /\ lastHy' = HyCall("rehydrate", serialized, fallback, deserializer,
                            rehydrateState(serialized, fallback, deserializer))

IdleHydr ==
    /\ lastHy = HyCall("none", Null, "object {}", NoDeserializer, Returned("object {}"))
    /\ nHyOps = 0

HydrFrame == UNCHANGED <<baseVars, swapVars, subVars, cdVars, trackerVars, triggerVars, sliceVars, unloadVars, snapVars>>

NextHydr == Rehydrate /\ HydrFrame

\* C32: rehydrateState never throws; it returns the fallback when the
\* serialized text is null, undefined or empty and when the default or the
\* custom deserializer throws on it, and the deserializer's result otherwise.
C32_RehydrateNeverThrows ==
    lastHy.op = "rehydrate" =>
        /\ ~lastHy.threw
        /\ lastHy.value =
              IF falsy(lastHy.serialized) \/ deserialize(lastHy.deserializer, lastHy.serialized).threw
              THEN lastHy.fallback
              ELSE deserialize(lastHy.deserializer, lastHy.serialized).value

\* a custom deserializer threw on a non-empty text and the fallback came back
C32_Witness ==
    /\ lastHy.op = "rehydrate"
    /\ lastHy.serialized = "[1]"
    /\ lastHy.deserializer = "strict"
    /\ lastHy.value = lastHy.fallback
    /\ lastHy.fallback = "object fallback"


(***************************************************************************)
(* The lazy registry seen from the store's state                           *)
(***************************************************************************)
\* the keys that hold a value in a state
HeldKeys(s) == {k \in ObjKeys : Props(s)[k] # Undef}

\* whether a reducer of the model changes anything on an action of this type
handles(r, type) == (r = "r1" /\ type = "SET") \/ (r = "counter" /\ type = "INC")

\* C34: after loadReducer(key, r, store) returns, whether or not a base
\* reducer was set on the registry, getState()[key] holds the slice's initial
\* value (r applied to undefined and the init action) when key was absent
\* before, and every other top-level key of the state before the call is
\* still present with its value; the same holds for every later dispatch
\* that r and the other reducers do not handle.
C34_LoadReducerKeepsOtherKeys ==
    /\ lazyLast.op = "loadReducer" =>
          LET d == lazyDispatched
          IN  /\ Props(d.before)[lazyLast.key] = Undef =>
                    Props(lazyState)[lazyLast.key]
                        = sliceReduce(lazyLast.r, Undef, lazyInitType(lazyLast.key))
              /\ \A k \in HeldKeys(d.before) \ {lazyLast.key} :
                    Props(lazyState)[k] = Props(d.before)[k]
    /\ (lazyLast.op = "dispatch" /\ unloaders # {}) =>
          LET d == lazyDispatched
          IN  (/\ ~handles("counter", d.type)
               /\ \A k \in OwnKeys(d.reducers) : ~handles(d.reducers[k], d.type)
               /\ HeldKeys(d.before) = {"counter"} \cup OwnKeys(d.reducers))
                  => d.after = d.before

\* C35: in the reducer getCombinedReducer() returns for a base B and
\* registered slices, for every state and action the new value at a slice key
\* k is the slice reducer of k applied to the value at k of the incoming
\* state, whatever B does with k; when B returns only its own keys, a value a
\* slice reached by an earlier action is not reset to the slice's initial
\* value by later actions the slice does not handle.
C35_SliceSeesIncomingValue ==
    /\ (WasApplied /\ lazyApplied.base # NoBase) =>
          \A k \in OwnKeys(lazyApplied.reducers) :
              Props(lazyApplied.out)[k]
                  = sliceReduce(lazyApplied.reducers[k], prop(lazyApplied.in, k),
                                lazyApplied.type)
    /\ (lazyDispatched.type # "none" /\ lazyDispatched.base # NoBase /\ lazyMode = "lazy") =>
          \A k \in OwnKeys(lazyDispatched.reducers) :
              (Props(lazyDispatched.before)[k] # Undef
                   /\ ~handles(lazyDispatched.reducers[k], lazyDispatched.type))
                  => Props(lazyDispatched.after)[k] = Props(lazyDispatched.before)[k]


\* C36: for a state created by getInitialState(additionalState), every
\* adapter operation, with or without sortComparer, returns a state in which
\* every additional property is still present with its value; only ids and
\* entities may differ.
C36_AdditionalStateKept == [][estate'.extra = estate.extra]_vars


(***************************************************************************)
(* loadReducer and the unload functions it returns, call by call           *)
(***************************************************************************)
NoCall == 0
NoUnload == [call |-> NoCall, key |-> "", again |-> FALSE, regBy |-> NoCall,
             mapBefore |-> [k \in LazyKeys |-> Absent], rootBefore |-> NoRoot]

\* loadReducer(key, r, store): the call is numbered, and the registration of
\* key is from now on the one this call created
UlLoadReducer ==
    \E k \in LazyKeys, r \in SliceReducers :
        /\ loadReducer(k, r)
        /\ lzLoads' = Append(lzLoads, [key |-> k, r |-> r])
        /\ lzRegBy' = [lzRegBy EXCEPT ![k] = Len(lzLoads) + 1]
        /\ UNCHANGED <<lzUnloaded, lastUnload>>

\* the unload function the i-th loadReducer call returned
UlUnload ==
    \E i \in 1..Len(lzLoads) :
        /\ unload(lzLoads[i].key)
        /\ lastUnload' = [call |-> i, key |-> lzLoads[i].key, again |-> i \in lzUnloaded,
                          regBy |-> lzRegBy[lzLoads[i].key],
                          mapBefore |-> reducerMap, rootBefore |-> lazyRoot]
        /\ lzUnloaded' = lzUnloaded \cup {i}
        /\ lzRegBy' = [lzRegBy EXCEPT ![lzLoads[i].key] =
                          IF reducerMap'[lzLoads[i].key] = Absent THEN NoCall ELSE @]
        /\ UNCHANGED lzLoads

UlConfigure == (LazyPlainConfigure \/ LazyConfigure) /\ UNCHANGED unloadVars
UlDispatch  == LazyDispatch /\ UNCHANGED unloadVars

IdleUnload ==
    /\ lzLoads = <<>>
    /\ lzRegBy = [k \in LazyKeys |-> NoCall]
    /\ lzUnloaded = {}
    /\ lastUnload = NoUnload

UnloadFrame == UNCHANGED <<storeVars, replacedWith, entityVars, selectorVars, effectVars,
                           wrapVars, swapVars, subVars, cdVars, trackerVars, triggerVars,
                           sliceVars, hydrVars, snapVars>>

NextUnload ==
    \/ UlConfigure /\ UnloadFrame
    \/ UlLoadReducer /\ UnloadFrame
    \/ UlUnload /\ UnloadFrame
    \/ UlDispatch /\ UnloadFrame

\* C37: an unload function returned by loadReducer removes only the
\* registration its own call created: when the key was loaded again since,
\* calling the earlier call's unload leaves the key registered with the later
\* reducer and that reducer active; calling an unload function more than
\* once has no effect after the first call.
C37_UnloadRemovesOwnRegistration ==
    (lazyLast.op = "unload" /\ lastUnload.call # NoCall) =>
        /\ lastUnload.regBy = lastUnload.call => reducerMap[lastUnload.key] = Absent
        /\ (lastUnload.regBy # lastUnload.call \/ lastUnload.again) =>
              /\ reducerMap = lastUnload.mapBefore
              /\ lazyRoot = lastUnload.rootBefore


(***************************************************************************)
(* Whether a reducer returns the very object it was given                  *)
(***************************************************************************)
\* redux combineReducers returns the state it was given when no key's value
\* changed and the state has exactly the reducers' keys
combineReturnsInput(keys, state, out) ==
    /\ state.t = "object"
    /\ {k \in ObjKeys : Props(state)[k] # Undef} = keys
    /\ out = state

\* base(state, action) === state
baseReturnsInput(b, state, type) ==
    IF b = "spread" THEN FALSE
    ELSE IF b = SwitchReducer THEN state.t = "object" /\ type # "INC"
    ELSE combineReturnsInput({"counter"}, state, baseReduce(b, state, type))

\* f(state, action) === state for a reducer f that getCombinedReducer()
\* returned; the wrapper of a base with slices returns an object literal
returnsInput(f, state, type) ==
    IF f.kind = "base" THEN baseReturnsInput(f.base, state, type)
    ELSE IF f.kind = "merged" THEN FALSE
    ELSE IF f.kind = "combined"
    THEN combineReturnsInput(OwnKeys(f.reducers), state, combineSlices(f.reducers, state, type))
    ELSE state.t = "object"

LazySetAnyBaseReducer == \E b \in BaseReducers \cup {SwitchReducer} : setBaseReducer(b)

NextLazyRef ==
    \/ LazySetAnyBaseReducer /\ LazyFrame
    \/ LazyRegister /\ LazyFrame
    \/ LazyApply /\ LazyFrame

\* C38: the reducer getCombinedReducer() returns for a base reducer and at
\* least one registered slice returns the very state it was given whenever
\* the base and every slice reducer return their inputs unchanged.
C38_UnhandledKeepsReference ==
    (/\ WasApplied
     /\ lazyApplied.base # NoBase
     /\ OwnKeys(lazyApplied.reducers) # {}
     /\ baseReturnsInput(lazyApplied.base, lazyApplied.in, lazyApplied.type)
     /\ \A k \in OwnKeys(lazyApplied.reducers) :
           sliceReduce(lazyApplied.reducers[k], prop(lazyApplied.in, k), lazyApplied.type)
               = prop(lazyApplied.in, k))
        => /\ lazyApplied.out = lazyApplied.in
           /\ returnsInput(combinedReducerOf(lazyApplied.base, lazyApplied.reducers),
                           lazyApplied.in, lazyApplied.type)


(***************************************************************************)
(* destroy() and the tasks in flight                                       *)
(***************************************************************************)
\* rxEffect with resubscribeOnError: the select stream ends with an error,
\* the error handler calls subscribe(), the stream hands the current value to
\* the new subscription before subscribe() returns, and effectFn, called
\* with it, calls destroy().  destroy$ ends the outer stream through
\* takeUntil; subscription still names the subscription that ended with the
\* error, so unsubscribe() does nothing.  switchMap completes its subscriber
\* when the outer stream completes while no inner one is subscribed, and
\* what effectFn returns is unsubscribed as soon as it is subscribed;
\* mergeMap, concatMap and exhaustMap have counted the inner subscription
\* before they call effectFn and leave it subscribed.
destroyInsideResubscribe(kind) ==
    LET v == effArrived + 1
        h == errorHandler(FALSE)
    IN  /\ effKind = "rxEffect"
        /\ effSubscribed
        /\ effResub
        /\ effArrived < MaxValues
        /\ effDestroyCalls < MaxDestroy
        /\ effArrived' = v
        /\ effBusyAt' = [effBusyAt EXCEPT ![v] = Active(effStatus) # {}]
        /\ effSourceErrors' = effSourceErrors + 1
        /\ effTerminal' = effTerminal + h.resubscribes
        /\ effResubscribes' = effResubscribes + h.resubscribes
        /\ effArrivedAtError' = IF effSourceErrors = 0 THEN v ELSE effArrivedAtError
        /\ effInvoked' = Append(effInvoked, v)
        /\ effFailure' = IF kind = "throws"
                            THEN [effFailure EXCEPT ![v] = "threw"] ELSE effFailure
        /\ effDestroyCalls' = effDestroyCalls + 1
        /\ effArrivedAtDestroy' = IF effDestroyCalls = 0 THEN v ELSE effArrivedAtDestroy
        /\ effSubscribed' = FALSE
        /\ effBuffer' = <<>>
        /\ effStatus' =
              IF getFlattenOperator(effConcurrency) = "switchMap"
              THEN [TornDown(effStatus) EXCEPT
                       ![v] = IF kind = "observable" THEN "cancelled" ELSE "done"]
              ELSE Project(TornDown(effStatus), v, kind)
        /\ UNCHANGED <<effKind, effConcurrency, effObserved, effResub, effDestroyThrew>>

EffDestroyInsideLater       == \E k \in InvokeKinds : destroyInside(k, FALSE)
EffDestroyInsideResubscribe == \E k \in InvokeKinds : destroyInsideResubscribe(k)

\* an effect with its tasks, destroyed from outside or from inside effectFn
NextEffectDestroy ==
    \/ EffSelectEmits /\ EffectFrame
    \/ EffMatchingDispatch /\ EffectFrame
    \/ EffTaskEmit /\ EffectFrame
    \/ EffTaskComplete /\ EffectFrame
    \/ EffDestroy /\ EffectFrame
    \/ EffDestroyInsideLater /\ EffectFrame
    \/ EffDestroyInsideResubscribe /\ EffectFrame

\* C39: after destroy() of an rxEffect or rxActionEffect has returned, no
\* task the effect started is still subscribed: an inner observable in flight
\* is cancelled and emits nothing further, for every concurrency policy, also
\* when destroy() is called from inside the effect function or after a
\* re-subscription.
C39_DestroyCancelsTasks ==
    effDestroyCalls > 0 =>
        /\ Active(effStatus) = {}
        /\ effBuffer = <<>>

\* It holds for an effect that has not re-subscribed.
DestroyCancelsTasksOfFirstSubscription ==
    (effDestroyCalls > 0 /\ effResubscribes = 0) =>
        /\ Active(effStatus) = {}
        /\ effBuffer = <<>>


(***************************************************************************)
(* StoreActionTracker.getInfo() and the object it returns                  *)
(*                                                                         *)
(* getInfo() copies the fields of info into a new object.  The field       *)
(* actionHistory holds an array; the copy holds the same array until       *)
(* reset() gives info a new one.                                           *)
(***************************************************************************)
NoSnapshot ==
    [taken |-> FALSE, actionCount |-> 0, lastActionType |-> Null, actionHistory |-> <<>>,
     sharesArray |-> FALSE, atCall |-> EmptyInfo, pushed |-> <<>>]

\* getInfo(): { ...this.info }
getInfo ==
    /\ nTrOps < MaxTrOps
    /\ nTrOps' = nTrOps + 1
    /\ trSnapshot' = [taken |-> TRUE, actionCount |-> trInfo.actionCount,
                      lastActionType |-> trInfo.lastActionType,
                      actionHistory |-> trInfo.actionHistory,
                      sharesArray |-> TRUE, atCall |-> trInfo, pushed |-> <<>>]
    /\ UNCHANGED <<trEnabled, trWrappers, trPrevious, trInfo, trTyped, trCounter, lastTr,
                   lastSn>>

\* the returned object while the tracker works: what the wrapper pushes to
\* and shifts from info.actionHistory is done to the array the object holds
snapshotAfter(info) ==
    IF trSnapshot.taken /\ trSnapshot.sharesArray
    THEN [trSnapshot EXCEPT !.actionHistory = info.actionHistory]
    ELSE trSnapshot

SnDispatch == TrDispatch /\ trSnapshot' = snapshotAfter(trInfo') /\ UNCHANGED lastSn
SnEnable   == trEnable /\ UNCHANGED snapVars

\* reset(): info is a new object with a new array
SnReset ==
    /\ trReset
    /\ trSnapshot' = [trSnapshot EXCEPT !.sharesArray = FALSE]
    /\ UNCHANGED lastSn

\* the caller changes the object: info.actionHistory.push(type) on it
snapshotPush(type) ==
    /\ trSnapshot.taken
    /\ nTrOps < MaxTrOps
    /\ nTrOps' = nTrOps + 1
    /\ trSnapshot' = [trSnapshot EXCEPT !.actionHistory = Append(@, type),
                                        !.pushed = Append(@, type)]
    /\ trInfo' = IF trSnapshot.sharesArray
                 THEN [trInfo EXCEPT !.actionHistory = Append(@, type)]
                 ELSE trInfo
    /\ lastSn' = [op |-> "push", reported |-> trInfo, at |-> nTrOps + 1]
    /\ UNCHANGED <<trEnabled, trWrappers, trPrevious, trTyped, trCounter, lastTr>>

SnPush == snapshotPush("X")

IdleSnap ==
    /\ trSnapshot = NoSnapshot
    /\ lastSn = [op |-> "none", reported |-> EmptyInfo, at |-> 0]

SnapFrame == UNCHANGED <<baseVars, swapVars, subVars, cdVars, triggerVars, sliceVars,
                         hydrVars, unloadVars>>

NextSnapshot ==
    \/ SnEnable /\ SnapFrame
    \/ getInfo /\ SnapFrame
    \/ SnDispatch /\ SnapFrame
    \/ SnReset /\ SnapFrame
    \/ SnPush /\ SnapFrame

\* C40: an object returned by getInfo() is a snapshot: later dispatches and
\* reset() change none of its fields, the contents of its actionHistory
\* included, and changing the object does not change what the tracker
\* reports afterwards.
C40_GetInfoIsSnapshot ==
    /\ trSnapshot.taken =>
          /\ trSnapshot.actionCount = trSnapshot.atCall.actionCount
          /\ trSnapshot.lastActionType = trSnapshot.atCall.lastActionType
          /\ trSnapshot.actionHistory = trSnapshot.atCall.actionHistory \o trSnapshot.pushed
    /\ (lastSn.op = "push" /\ lastSn.at = nTrOps) => trInfo = lastSn.reported


\* the later components as constructed
IdleLater == IdleSwap /\ IdleSub /\ IdleCd /\ IdleTracker /\ IdleTrigger /\ IdleSlice /\ IdleHydr /\ IdleUnload /\ IdleSnap

(***************************************************************************)
(* The specifications: one component runs, the others stay as constructed. *)
(***************************************************************************)
Init == InitStore /\ InitEntity /\ InitSelector /\ InitEffect /\ InitWrap /\ InitLazy /\ InitSwap /\ InitSub /\ InitCd /\ InitTracker /\ InitTrigger /\ InitSlice /\ IdleHydr /\ IdleUnload /\ IdleSnap

StoreInit == InitStore /\ IdleEntity /\ IdleSelector /\ IdleEffect /\ IdleWrap /\ IdleLazy /\ IdleLater
SpecStore == StoreInit /\ [][NextStore]_vars

SpecStoreReplace == StoreInit /\ [][NextStoreReplace]_vars

EntityInit == IdleStore /\ InitEntity /\ IdleSelector /\ IdleEffect /\ IdleWrap /\ IdleLazy /\ IdleLater
SpecEntity == EntityInit /\ [][NextEntity]_vars

SpecEntitySorted == EntityInit /\ [][NextEntitySorted]_vars

SelectorInit == IdleStore /\ IdleEntity /\ InitSelector /\ IdleEffect /\ IdleWrap /\ IdleLazy /\ IdleLater
SpecSelector == SelectorInit /\ [][NextSelector]_vars

EffectInit == IdleStore /\ IdleEntity /\ IdleSelector /\ InitEffect /\ IdleWrap /\ IdleLazy /\ IdleLater
SpecEffect == EffectInit /\ [][NextEffect]_vars

SpecEffectLife == EffectInit /\ [][NextEffectLife]_vars

SpecEffectDestroy == EffectInit /\ [][NextEffectDestroy]_vars

WrapInit == IdleStore /\ IdleEntity /\ IdleSelector /\ IdleEffect /\ InitWrap /\ IdleLazy /\ IdleLater
SpecWrap == WrapInit /\ [][NextWrap]_vars

LazyInit == IdleStore /\ IdleEntity /\ IdleSelector /\ IdleEffect /\ IdleWrap /\ InitLazy /\ IdleLater
SpecLazy == LazyInit /\ [][NextLazy]_vars


\* the components of the earlier sections as constructed
IdleBase == IdleStore /\ IdleEntity /\ IdleSelector /\ IdleEffect /\ IdleWrap /\ IdleLazy

SwapInit == IdleBase /\ InitSwap /\ IdleSub /\ IdleCd /\ IdleTracker /\ IdleTrigger /\ IdleSlice /\ IdleHydr /\ IdleUnload /\ IdleSnap
SpecSwap == SwapInit /\ [][NextSwap]_vars

SubInit == IdleBase /\ IdleSwap /\ InitSub /\ IdleCd /\ IdleTracker /\ IdleTrigger /\ IdleSlice /\ IdleHydr /\ IdleUnload /\ IdleSnap
SpecSub == SubInit /\ [][NextSub]_vars

CdInit == IdleBase /\ IdleSwap /\ IdleSub /\ InitCd /\ IdleTracker /\ IdleTrigger /\ IdleSlice /\ IdleHydr /\ IdleUnload /\ IdleSnap
SpecCd == CdInit /\ [][NextCd]_vars

TrackerInit == IdleBase /\ IdleSwap /\ IdleSub /\ IdleCd /\ InitTracker /\ IdleTrigger /\ IdleSlice /\ IdleHydr /\ IdleUnload /\ IdleSnap
SpecTracker == TrackerInit /\ [][NextTracker]_vars

SpecEffectTrigger == EffectInit /\ [][NextEffectTrigger]_vars

SliceInit == IdleBase /\ IdleSwap /\ SubInUse /\ IdleCd /\ IdleTracker /\ IdleTrigger /\ InitSlice /\ IdleHydr /\ IdleUnload /\ IdleSnap
SpecSlice == SliceInit /\ [][NextSlice]_vars


\* rehydrateState called with every kind of argument
HydrInit == IdleBase /\ IdleLater
SpecHydr == HydrInit /\ [][NextHydr]_vars


\* a configured store on which reducers are loaded and unloaded
SpecUnload == LazyInit /\ [][NextUnload]_vars


\* the registry with any base reducer, its combined reducer applied
SpecLazyRef == LazyInit /\ [][NextLazyRef]_vars


\* a tracker whose info is read and whose returned object is kept
SnapshotInit == IdleBase /\ IdleSwap /\ IdleSub /\ IdleCd /\ InitTracker /\ IdleTrigger /\ IdleSlice /\ IdleHydr /\ IdleUnload /\ IdleSnap
SpecSnapshot == SnapshotInit /\ [][NextSnapshot]_vars

====
